---------------------------- MODULE Spec2Model ----------------------------
(***************************************************************************)
(* Model of the timestamp formatting utilities of the Work-Eye dashboard:  *)
(*   formatLocalTime, formatLocalDateTime, formatScreenshotTime,           *)
(*   formatActivityTime   (timezoneUtils) and                              *)
(*   formatLastActivity   (utils/timeUtils.ts).                            *)
(*                                                                         *)
(* JavaScript strings are sequences of one-character strings, so that the  *)
(* regular expressions, parseInt, padStart and the template literals of    *)
(* the source are computed character by character.  An instant (the time   *)
(* value of a JavaScript Date) is a record                                 *)
(*     [nan, day, sec, ms]                                                 *)
(* day = whole days since 1970-01-01 UTC, sec = second of that day,        *)
(* ms = millisecond of that second; nan = TRUE is the Invalid Date.  The   *)
(* split keeps every number inside TLC's 32-bit integers.                  *)
(* The local time zone is a fixed offset tz, in minutes east of UTC.       *)
(*                                                                         *)
(* The second part models one call of fetchAPI (config/api.ts): the retry  *)
(* loop with its awaits (fetch, response.text(), response.json(), the      *)
(* backoff timer) as the steps, and the requests, responses and waits of   *)
(* the call recorded in a log.  Spec runs the formatters, FetchSpec and    *)
(* FetchLive run fetchAPI.                                                 *)
(*                                                                         *)
(* The third part models the Dashboard (components/Dashboard.tsx): the     *)
(* detail view with handleEmployeeClick and the periodic refreshDetails    *)
(* (DetailSpec), and the periodic loadEmployees (PollSpec).                *)
(***************************************************************************)
EXTENDS Integers, Sequences, FiniteSets, TLC

VARIABLES
    now,    \* the wall clock: the instant `new Date()` returns
    tz,     \* the local zone of the runtime, minutes east of UTC
    engine, \* how the runtime's Date parser treats what ECMAScript leaves open
    call,   \* the last formatter call: function, argument, result, trace
    pc,        \* fetchAPI: where the call is suspended, or how it settled
    attempt,   \* fetchAPI: the loop variable `attempt`
    response,  \* fetchAPI: the Response of the current attempt
    lastError, \* fetchAPI: the variable `lastError`
    result,    \* fetchAPI: the value the call resolved with
    thrown,    \* fetchAPI: the error the call rejected with
    log,       \* fetchAPI: the requests, responses and waits so far, in order
    view,             \* Dashboard: the state `view`
    selectedEmployee, \* Dashboard: the state `selectedEmployee`
    effect,           \* Dashboard: the detail effect in force and the selectedEmployee its closure holds
    clicks,           \* Dashboard: the calls of handleEmployeeClick under way
    clicksStarted,    \* Dashboard: how many calls of handleEmployeeClick were started
    runs,             \* Dashboard: the runs of refreshDetails under way
    runsStarted,      \* Dashboard: how many runs of refreshDetails were started
    step,             \* Dashboard: the last step, when it was an update by refreshDetails
    employees,        \* Dashboard: the state `employees`
    polls,            \* Dashboard: the calls of loadEmployees under way
    pollsStarted,     \* Dashboard: how many calls of loadEmployees were started
    succeeded         \* Dashboard: the calls of loadEmployees that set `employees`

\* the state of the formatters, of a fetchAPI call and of the Dashboard
fmtVars == <<now, tz, engine, call>>
fetchVars == <<pc, attempt, response, lastError, result, thrown, log>>
detailVars == <<view, selectedEmployee, effect, clicks, clicksStarted, runs, runsStarted, step>>
pollVars == <<employees, polls, pollsStarted, succeeded>>
dashVars == <<detailVars, pollVars>>

vars ==
    <<now, tz, engine, call, pc, attempt, response, lastError, result, thrown, log,
      view, selectedEmployee, effect, clicks, clicksStarted, runs, runsStarted, step,
      employees, polls, pollsStarted, succeeded>>

---------------------------------------------------------------------------
(* JavaScript values: strings, null, undefined, numbers.                   *)

Str(s) == [tag |-> "string", s |-> s, n |-> 0]
Num(k) == [tag |-> "number", s |-> <<>>, n |-> k]
Null == [tag |-> "null", s |-> <<>>, n |-> 0]
Undefined == [tag |-> "undefined", s |-> <<>>, n |-> 0]

\* ToBoolean(v): null, undefined, "" and 0 are falsy
Truthy(v) ==
    CASE v.tag = "string" -> v.s # <<>>
      [] v.tag = "number" -> v.n # 0
      [] OTHER -> FALSE

\* v === 'literal'
StrictEq(v, lit) == v.tag = "string" /\ v.s = lit

\* String.prototype.includes(c) for a one-character needle
Includes(s, c) == \E i \in 1..Len(s) : s[i] = c

DigitChars == <<"0", "1", "2", "3", "4", "5", "6", "7", "8", "9">>

IsDigit(c) == \E i \in 1..10 : DigitChars[i] = c

DigitVal(c) == (CHOOSE i \in 1..10 : DigitChars[i] = c) - 1

\* the regular expression class \s, for the characters the inputs use
IsSpace(c) == c \in {" ", "\t", "\n"}

\* String.prototype.toUpperCase, for the letters the inputs use
UpperChar(c) ==
    CASE c = "a" -> "A"
      [] c = "m" -> "M"
      [] c = "p" -> "P"
      [] OTHER -> c

ToUpperCase(s) == [i \in 1..Len(s) |-> UpperChar(s[i])]

\* parseInt of a string of decimal digits
RECURSIVE ParseInt(_)
ParseInt(s) ==
    IF s = <<>> THEN 0
    ELSE 10 * ParseInt(SubSeq(s, 1, Len(s) - 1)) + DigitVal(s[Len(s)])

AllDigits(s, from, to) == \A i \in from..to : IsDigit(s[i])

\* String(n) for an integer n >= 0
RECURSIVE NumToStr(_)
NumToStr(n) ==
    IF n < 10 THEN <<DigitChars[n + 1]>>
    ELSE NumToStr(n \div 10) \o <<DigitChars[(n % 10) + 1]>>

\* String(n).padStart(width, '0')
RECURSIVE PadStart(_, _)
PadStart(s, width) == IF Len(s) >= width THEN s ELSE PadStart(<<"0">> \o s, width)

---------------------------------------------------------------------------
(* The Date arithmetic of the runtime (ECMAScript MakeDay, MakeTime,       *)
(* YearFromTime, MonthFromTime, DateFromTime) on the proleptic Gregorian   *)
(* calendar.                                                               *)

NaN == [nan |-> TRUE, day |-> 0, sec |-> 0, ms |-> 0]

\* days since 1970-01-01 of the civil date y-m-d, m in 1..12, any d
DaysFromCivil(y, m, d) ==
    LET yy  == IF m <= 2 THEN y - 1 ELSE y
        era == yy \div 400
        yoe == yy - era * 400
        mp  == IF m > 2 THEN m - 3 ELSE m + 9
        doy == (153 * mp + 2) \div 5 + d - 1
        doe == yoe * 365 + yoe \div 4 - yoe \div 100 + doy
    IN  era * 146097 + doe - 719468

\* the civil date [y, m, d] of a day number
CivilFromDays(z0) ==
    LET z   == z0 + 719468
        era == z \div 146097
        doe == z - era * 146097
        yoe == (doe - doe \div 1460 + doe \div 36524 - doe \div 146096) \div 365
        doy == doe - (365 * yoe + yoe \div 4 - yoe \div 100)
        mp  == (5 * doy + 2) \div 153
        d   == doy - (153 * mp + 2) \div 5 + 1
        m   == IF mp < 10 THEN mp + 3 ELSE mp - 9
        y   == yoe + era * 400 + (IF m <= 2 THEN 1 ELSE 0)
    IN  [y |-> y, m |-> m, d |-> d]

\* the instant `secs` seconds and `ms` milliseconds after the start of `day`
MakeDate(day, secs, ms) ==
    [nan |-> FALSE, day |-> day + secs \div 86400, sec |-> secs % 86400, ms |-> ms]

\* Date.UTC(year, monthIndex, day, hours, minutes, seconds): fields out of
\* range carry into the next unit; a year 0..99 means 1900 + year
DateUTC(year, monthIndex, day, hours, minutes, seconds) ==
    LET yr == IF year >= 0 /\ year <= 99 THEN 1900 + year ELSE year
        ym == yr + monthIndex \div 12
        mn == monthIndex % 12
    IN  MakeDate(DaysFromCivil(ym, mn + 1, 1) + day - 1,
                 hours * 3600 + minutes * 60 + seconds, 0)

\* the instant moved by `minutes` minutes
AddMinutes(t, minutes) == MakeDate(t.day, t.sec + minutes * 60, t.ms)

\* the calendar fields of instant t read at offset `off` minutes from UTC
Fields(t, off) ==
    LET l == AddMinutes(t, off)
        c == CivilFromDays(l.day)
    IN  [year |-> c.y, month |-> c.m, date |-> c.d,
         hours |-> l.sec \div 3600, minutes |-> (l.sec \div 60) % 60,
         seconds |-> l.sec % 60]


---------------------------------------------------------------------------
(* new Date(string).  ECMAScript fixes the result only for its date-time   *)
(* string format  YYYY-MM-DD[THH:mm[:ss[.sss]]][Z|+HH:mm|-HH:mm] ; a       *)
(* date-only form is UTC, a date-time without offset is local time.        *)
(* Anything else is left to the implementation: the "lenient" engine       *)
(* (V8-like) also reads a space in place of the T and lets a day of        *)
(* 29..31 run over into the next month, the "strict" engine answers        *)
(* Invalid Date for both.  Neither reads a string that carries no          *)
(* calendar date (a word, a bare clock time).                              *)

DaysInMonth(y, m) == DaysFromCivil(IF m = 12 THEN y + 1 ELSE y, IF m = 12 THEN 1 ELSE m + 1, 1)
                     - DaysFromCivil(y, m, 1)

\* s[from..] is  +HH:mm  or  -HH:mm  : the offset in minutes, else "none"
ParseOffset(s, from) ==
    IF /\ Len(s) = from + 5
       /\ s[from] \in {"+", "-"}
       /\ AllDigits(s, from + 1, from + 2)
       /\ s[from + 3] = ":"
       /\ AllDigits(s, from + 4, from + 5)
       /\ ParseInt(SubSeq(s, from + 1, from + 2)) <= 23
       /\ ParseInt(SubSeq(s, from + 4, from + 5)) <= 59
    THEN [ok |-> TRUE,
          min |-> (IF s[from] = "-" THEN -1 ELSE 1)
                  * (ParseInt(SubSeq(s, from + 1, from + 2)) * 60
                     + ParseInt(SubSeq(s, from + 4, from + 5)))]
    ELSE [ok |-> FALSE, min |-> 0]

\* s starts with YYYY-MM-DD
HasDate(s) ==
    /\ Len(s) >= 10
    /\ AllDigits(s, 1, 4) /\ s[5] = "-"
    /\ AllDigits(s, 6, 7) /\ s[8] = "-"
    /\ AllDigits(s, 9, 10)

\* ... followed by THH:mm (the lenient engine: or a space for the T)
HasTime(s, e) ==
    /\ Len(s) >= 16
    /\ \/ s[11] = "T"
       \/ e = "lenient" /\ s[11] = " "
    /\ AllDigits(s, 12, 13) /\ s[14] = ":"
    /\ AllDigits(s, 15, 16)

\* ... followed by :ss
HasSec(s, e) == HasTime(s, e) /\ Len(s) >= 19 /\ s[17] = ":" /\ AllDigits(s, 18, 19)

\* ... followed by .sss
HasMs(s, e) == HasSec(s, e) /\ Len(s) >= 23 /\ s[20] = "." /\ AllDigits(s, 21, 23)

\* the calendar date is one the engine takes
DateOk(y, m, d, e) ==
    /\ m >= 1 /\ m <= 12 /\ d >= 1
    /\ \/ d <= DaysInMonth(y, m)
       \/ e = "lenient" /\ d <= 31

\* the instant of a string whose date part is day number `day` and whose time
\* part, hh:mi:ss.ms, ends before index `tail`
DateTimeOf(s, z, day, hasTime, hh, mi, ss, ms, tail) ==
    CASE Len(s) = 10 -> MakeDate(day, 0, 0)
      [] ~hasTime \/ hh > 23 \/ mi > 59 \/ ss > 59 -> NaN
      [] Len(s) = tail - 1 -> AddMinutes(MakeDate(day, hh * 3600 + mi * 60 + ss, ms), -z)
      [] Len(s) = tail /\ s[tail] = "Z" -> MakeDate(day, hh * 3600 + mi * 60 + ss, ms)
      [] ParseOffset(s, tail).ok ->
             AddMinutes(MakeDate(day, hh * 3600 + mi * 60 + ss, ms), -ParseOffset(s, tail).min)
      [] OTHER -> NaN

\* the date part y-m-d read, the rest of the string
DateOf(s, z, e, y, m, d) ==
    IF ~DateOk(y, m, d, e) THEN NaN
    ELSE DateTimeOf(s, z, DaysFromCivil(y, m, 1) + d - 1,
                    HasTime(s, e),
                    IF HasTime(s, e) THEN ParseInt(SubSeq(s, 12, 13)) ELSE 0,
                    IF HasTime(s, e) THEN ParseInt(SubSeq(s, 15, 16)) ELSE 0,
                    IF HasSec(s, e) THEN ParseInt(SubSeq(s, 18, 19)) ELSE 0,
                    IF HasMs(s, e) THEN ParseInt(SubSeq(s, 21, 23)) ELSE 0,
                    IF HasMs(s, e) THEN 24 ELSE IF HasSec(s, e) THEN 20 ELSE 17)

\* the instant `new Date(s)` holds, NaN for Invalid Date
DateParse(s, z, e) ==
    IF ~HasDate(s) THEN NaN
    ELSE DateOf(s, z, e, ParseInt(SubSeq(s, 1, 4)), ParseInt(SubSeq(s, 6, 7)),
                ParseInt(SubSeq(s, 9, 10)))

---------------------------------------------------------------------------
(* Intl formatting for the locale en-US.                                   *)

MonthShort ==
    << <<"J","a","n">>, <<"F","e","b">>, <<"M","a","r">>, <<"A","p","r">>,
       <<"M","a","y">>, <<"J","u","n">>, <<"J","u","l">>, <<"A","u","g">>,
       <<"S","e","p">>, <<"O","c","t">>, <<"N","o","v">>, <<"D","e","c">> >>

Hour12(h) == IF h % 12 = 0 THEN 12 ELSE h % 12

DayPeriod(h) == IF h < 12 THEN <<"A", "M">> ELSE <<"P", "M">>

\* date.toLocaleTimeString('en-US', {hour: '2-digit', minute: '2-digit', hour12: true})
ToLocaleTimeString(t, z) ==
    LET f == Fields(t, z)
    IN  PadStart(NumToStr(Hour12(f.hours)), 2) \o <<":">>
        \o PadStart(NumToStr(f.minutes), 2) \o <<" ">> \o DayPeriod(f.hours)

\* date.toLocaleString('en-US', {month: 'short', day: 'numeric',
\*   year: withYear ? 'numeric' : undefined, hour: 'numeric', minute: '2-digit',
\*   hour12: true})
ToLocaleString(t, z, withYear) ==
    LET f == Fields(t, z)
    IN  MonthShort[f.month] \o <<" ">> \o NumToStr(f.date)
        \o (IF withYear THEN <<",", " ">> \o NumToStr(f.year) ELSE <<>>)
        \o <<",", " ">> \o NumToStr(Hour12(f.hours)) \o <<":">>
        \o PadStart(NumToStr(f.minutes), 2) \o <<" ">> \o DayPeriod(f.hours)

---------------------------------------------------------------------------
(* The string literals of the source.                                      *)

S_Unknown == <<"U", "n", "k", "n", "o", "w", "n">>
S_Never == <<"N", "e", "v", "e", "r">>
S_Recent == <<"R", "e", "c", "e", "n", "t">>
S_JustNow == <<"J", "u", "s", "t", " ", "n", "o", "w">>
S_Ago == <<" ", "a", "g", "o">>

---------------------------------------------------------------------------
(* The two regular expressions of timezoneUtils.                           *)

\* \d{4}-\d{2}-\d{2} \d{2}:\d{2}:\d{2} matches s from index i on
NaiveAt(s, i) ==
    /\ Len(s) >= i + 18
    /\ AllDigits(s, i, i + 3) /\ s[i + 4] = "-"
    /\ AllDigits(s, i + 5, i + 6) /\ s[i + 7] = "-"
    /\ AllDigits(s, i + 8, i + 9) /\ s[i + 10] = " "
    /\ AllDigits(s, i + 11, i + 12) /\ s[i + 13] = ":"
    /\ AllDigits(s, i + 14, i + 15) /\ s[i + 16] = ":"
    /\ AllDigits(s, i + 17, i + 18)

\* /^\d{4}-\d{2}-\d{2} \d{2}:\d{2}:\d{2}$/
NaiveAnchored(s) == Len(s) = 19 /\ NaiveAt(s, 1)

\* timestamp.match(/(\d{4})-(\d{2})-(\d{2}) (\d{2}):(\d{2}):(\d{2})/): the
\* leftmost match and its six groups, or null
NaiveMatch(s) ==
    IF \E i \in 1..Len(s) : NaiveAt(s, i)
    THEN LET i == CHOOSE k \in 1..Len(s) :
                      NaiveAt(s, k) /\ \A j \in 1..(k - 1) : ~NaiveAt(s, j)
         IN  [null |-> FALSE,
              g |-> << SubSeq(s, i, i + 3), SubSeq(s, i + 5, i + 6),
                       SubSeq(s, i + 8, i + 9), SubSeq(s, i + 11, i + 12),
                       SubSeq(s, i + 14, i + 15), SubSeq(s, i + 17, i + 18) >>]
    ELSE [null |-> TRUE, g |-> <<>>]

\* \d{1,2}:\d{2}\s?(AM|PM), case-insensitive, matches s from index i on with
\* nd hour digits and sp whitespace characters: the index after the match, 0
\* for no match
ClockEnd(s, i, nd, sp) ==
    LET c == i + nd       \* the colon
        p == c + 3 + sp   \* the A or P
    IN  IF /\ Len(s) >= p + 1
           /\ AllDigits(s, i, c - 1) /\ s[c] = ":"
           /\ AllDigits(s, c + 1, c + 2)
           /\ (sp = 1 => IsSpace(s[c + 3]))
           /\ UpperChar(s[p]) \in {"A", "P"} /\ UpperChar(s[p + 1]) = "M"
        THEN p + 2
        ELSE 0

\* mutant of ClockAnchored: the pattern without its ^ anchor
ClockAnchoredAtEndOnly(s) ==
    \E i \in 1..Len(s), nd \in {1, 2}, sp \in {0, 1} : ClockEnd(s, i, nd, sp) = Len(s) + 1

\* /^\d{1,2}:\d{2}\s?(AM|PM)$/i
ClockAnchored(s) ==
    \E nd \in {1, 2}, sp \in {0, 1} : ClockEnd(s, 1, nd, sp) = Len(s) + 1

\* timestamp.match(/(\d{1,2}):(\d{2})\s?(AM|PM)/i): the leftmost match and its
\* three groups, or null
ClockMatch(s) ==
    LET At(i) == \E nd \in {1, 2}, sp \in {0, 1} : ClockEnd(s, i, nd, sp) # 0
    IN  IF \E i \in 1..Len(s) : At(i)
        THEN LET i  == CHOOSE k \in 1..Len(s) : At(k) /\ \A j \in 1..(k - 1) : ~At(j)
                 nd == IF \E sp \in {0, 1} : ClockEnd(s, i, 2, sp) # 0 THEN 2 ELSE 1
                 sp == IF ClockEnd(s, i, nd, 1) # 0 THEN 1 ELSE 0
                 c  == i + nd
             IN  [null |-> FALSE,
                  g |-> << SubSeq(s, i, c - 1), SubSeq(s, c + 1, c + 2),
                           SubSeq(s, c + 3 + sp, c + 4 + sp) >>]
        ELSE [null |-> TRUE, g |-> <<>>]

---------------------------------------------------------------------------
(* What one call of a formatter did.                                       *)
(*   ret     the value returned                                            *)
(*   branch  the parse branch entered: guard, iso, naive, clock, fallback, *)
(*           generic (formatLastActivity), none                            *)
(*   exit    the return statement taken                                    *)
(*   date    the Date the parse step produced                              *)
(*   clock   how many times the wall clock was read (new Date())           *)
(*   dates   how many Date objects were constructed                        *)
(*   threw   an exception left the function                                *)
(*   caught  the catch block ran                                           *)

Outcome(ret, branch, exit, date, clock, dates) ==
    [ret |-> ret, branch |-> branch, exit |-> exit, date |-> date,
     clock |-> clock, dates |-> dates, threw |-> FALSE, caught |-> FALSE]

\* timestamp.includes(...) on a value that is no string: TypeError
Throw == [ret |-> Undefined, branch |-> "none", exit |-> "throw", date |-> NaN,
          clock |-> 0, dates |-> 0, threw |-> TRUE, caught |-> FALSE]

\* mutant of Catch: the catch block rethrows
CatchRethrow(o, timestamp) == o

\* catch (error) { console.error(...); return timestamp; }
Catch(o, timestamp) ==
    IF o.threw
    THEN [o EXCEPT !.ret = timestamp, !.exit = "catch", !.threw = FALSE, !.caught = TRUE]
    ELSE o

---------------------------------------------------------------------------
(* formatLocalTime                                                         *)

\* mutant of To24Hour: every PM hour gets 12 added, 12 PM too
To24HourNoonAdds(hours, period) ==
    LET h1 == IF period = <<"P", "M">> THEN hours + 12 ELSE hours
    IN  IF period = <<"A", "M">> /\ h1 = 12 THEN 0 ELSE h1

\* Convert to 24-hour format
To24Hour(hours, period) ==
    LET h1 == IF period = <<"P", "M">> /\ hours # 12 THEN hours + 12 ELSE hours
    IN  IF period = <<"A", "M">> /\ h1 = 12 THEN 0 ELSE h1

\* the six groups of the naive layout as a UTC instant; `return timestamp`
\* (echo) when the inner match is null
NaiveDate(parts) ==
    IF ~parts.null
    THEN [branch |-> "naive",
          date |-> DateUTC(ParseInt(parts.g[1]), ParseInt(parts.g[2]) - 1,
                           ParseInt(parts.g[3]), ParseInt(parts.g[4]),
                           ParseInt(parts.g[5]), ParseInt(parts.g[6])),
          clock |-> 0, dates |-> 1, echo |-> FALSE]
    ELSE [branch |-> "naive", date |-> NaN, clock |-> 0, dates |-> 0, echo |-> TRUE]

\* the clock time on the UTC calendar date of `today`; `return timestamp`
\* (echo) when the inner match is null
ClockDate(timeMatch, today) ==
    IF ~timeMatch.null
    THEN [branch |-> "clock",
          date |-> DateUTC(today.y, today.m - 1, today.d,
                           To24Hour(ParseInt(timeMatch.g[1]), ToUpperCase(timeMatch.g[3])),
                           ParseInt(timeMatch.g[2]), 0),
          clock |-> 1, dates |-> 2, echo |-> FALSE]
    ELSE [branch |-> "clock", date |-> NaN, clock |-> 1, dates |-> 1, echo |-> TRUE]

\* mutant of ParseLocalTime: the clock time is put on the local calendar date
\* of now (getFullYear/getMonth/getDate)
ParseLocalTimeLocalDate(s, n, z, e) ==
    IF Includes(s, "T") \/ Includes(s, "Z")
    THEN [branch |-> "iso", date |-> DateParse(s, z, e), clock |-> 0, dates |-> 1,
          echo |-> FALSE]
    ELSE IF NaiveAnchored(s)
    THEN NaiveDate(NaiveMatch(s))
    ELSE IF ClockAnchored(s)
    THEN ClockDate(ClockMatch(s), CivilFromDays(AddMinutes(n, z).day))
    ELSE [branch |-> "fallback", date |-> DateParse(s, z, e), clock |-> 0, dates |-> 1,
          echo |-> FALSE]

\* the parse step of formatLocalTime: [branch, date, clock, dates, echo]
ParseLocalTime(s, n, z, e) ==
    IF Includes(s, "T") \/ Includes(s, "Z")
    THEN [branch |-> "iso", date |-> DateParse(s, z, e), clock |-> 0, dates |-> 1,
          echo |-> FALSE]
    ELSE IF NaiveAnchored(s)
    THEN NaiveDate(NaiveMatch(s))
    ELSE IF ClockAnchored(s)
    THEN ClockDate(ClockMatch(s), CivilFromDays(n.day))  \* now.getUTCFullYear/Month/Date
    ELSE [branch |-> "fallback", date |-> DateParse(s, z, e), clock |-> 0, dates |-> 1,
          echo |-> FALSE]

\* the validity check and the rendering of formatLocalTime, p the parse step
FinishLocalTime(timestamp, p, z) ==
    IF p.echo
    THEN Outcome(timestamp, p.branch, "nomatch", p.date, p.clock, p.dates)
    ELSE IF p.date.nan
    THEN Outcome(timestamp, p.branch, "invalid", p.date, p.clock, p.dates)
    ELSE Outcome(Str(ToLocaleTimeString(p.date, z)), p.branch, "formatted",
                 p.date, p.clock, p.dates)

\* the try block of formatLocalTime
FormatLocalTimeTry(timestamp, n, z, e) ==
    IF timestamp.tag # "string" THEN Throw
    ELSE FinishLocalTime(timestamp, ParseLocalTime(timestamp.s, n, z, e), z)

\* mutant of GuardLocalTime: the guard of formatLocalDateTime, without 'Recent'
GuardLocalTimeNoRecent(timestamp) ==
    \/ ~Truthy(timestamp)
    \/ StrictEq(timestamp, S_Unknown)
    \/ StrictEq(timestamp, S_Never)

\* if (!timestamp || timestamp === 'Unknown' || timestamp === 'Never' || timestamp === 'Recent')
GuardLocalTime(timestamp) ==
    \/ ~Truthy(timestamp)
    \/ StrictEq(timestamp, S_Unknown)
    \/ StrictEq(timestamp, S_Never)
    \/ StrictEq(timestamp, S_Recent)

FormatLocalTime(timestamp, n, z, e) ==
    IF GuardLocalTime(timestamp)
    THEN Outcome(IF Truthy(timestamp) THEN timestamp ELSE Str(S_Unknown),
                 "guard", "guard", NaN, 0, 0)
    ELSE Catch(FormatLocalTimeTry(timestamp, n, z, e), timestamp)

\* formatActivityTime: return formatLocalTime(timestamp)
FormatActivityTime(timestamp, n, z, e) == FormatLocalTime(timestamp, n, z, e)

---------------------------------------------------------------------------
(* formatLocalDateTime                                                     *)

\* the parse step of formatLocalDateTime
ParseLocalDateTime(s, z, e) ==
    IF Includes(s, "T") \/ Includes(s, "Z")
    THEN [branch |-> "iso", date |-> DateParse(s, z, e), clock |-> 0, dates |-> 1,
          echo |-> FALSE]
    ELSE IF NaiveAnchored(s)
    THEN NaiveDate(NaiveMatch(s))
    ELSE [branch |-> "fallback", date |-> DateParse(s, z, e), clock |-> 0, dates |-> 1,
          echo |-> FALSE]

\* `${year}-${month}-${day} ${hours}:${minutes}:${seconds}` of the local fields;
\* month, day, hours, minutes and seconds go through padStart(2, '0'), the
\* year does not
RenderLocalDateTime(t, z) ==
    LET f == Fields(t, z)
    IN  NumToStr(f.year) \o <<"-">> \o PadStart(NumToStr(f.month), 2) \o <<"-">>
        \o PadStart(NumToStr(f.date), 2) \o <<" ">>
        \o PadStart(NumToStr(f.hours), 2) \o <<":">>
        \o PadStart(NumToStr(f.minutes), 2) \o <<":">>
        \o PadStart(NumToStr(f.seconds), 2)

\* the validity check and the rendering of formatLocalDateTime
FinishLocalDateTime(timestamp, p, z) ==
    IF p.echo
    THEN Outcome(timestamp, p.branch, "nomatch", p.date, 0, p.dates)
    ELSE IF p.date.nan
    THEN Outcome(timestamp, p.branch, "invalid", p.date, 0, p.dates)
    ELSE Outcome(Str(RenderLocalDateTime(p.date, z)), p.branch, "formatted",
                 p.date, 0, p.dates)

\* the try block of formatLocalDateTime
FormatLocalDateTimeTry(timestamp, z, e) ==
    IF timestamp.tag # "string" THEN Throw
    ELSE FinishLocalDateTime(timestamp, ParseLocalDateTime(timestamp.s, z, e), z)

\* mutant of GuardLocalDateTime: the guard of formatLocalTime, with 'Recent'
GuardLocalDateTimeWithRecent(timestamp) ==
    \/ ~Truthy(timestamp)
    \/ StrictEq(timestamp, S_Unknown)
    \/ StrictEq(timestamp, S_Never)
    \/ StrictEq(timestamp, S_Recent)

\* if (!timestamp || timestamp === 'Unknown' || timestamp === 'Never')
GuardLocalDateTime(timestamp) ==
    \/ ~Truthy(timestamp)
    \/ StrictEq(timestamp, S_Unknown)
    \/ StrictEq(timestamp, S_Never)

FormatLocalDateTime(timestamp, n, z, e) ==
    IF GuardLocalDateTime(timestamp)
    THEN Outcome(IF Truthy(timestamp) THEN timestamp ELSE Str(S_Unknown),
                 "guard", "guard", NaN, 0, 0)
    ELSE Catch(FormatLocalDateTimeTry(timestamp, z, e), timestamp)

\* formatScreenshotTime: return formatLocalDateTime(timestamp)
FormatScreenshotTime(timestamp, n, z, e) == FormatLocalDateTime(timestamp, n, z, e)

---------------------------------------------------------------------------
(* formatLastActivity                                                      *)

\* Math.floor((now.getTime() - lastActivityDate.getTime()) / 1000).  With
\* getTime() = (day * 86400 + sec) * 1000 + ms the quotient is the difference
\* of the whole seconds plus floor((n.ms - d.ms) / 1000), which is 0 or -1.
DiffSeconds(n, d) ==
    (n.day - d.day) * 86400 + (n.sec - d.sec) + ((n.ms - d.ms) \div 1000)

\* mutant of Ago: the unit word is always plural
AgoAlwaysPlural(count, unit) ==
    NumToStr(count) \o <<" ">> \o unit \o <<"s">> \o S_Ago

\* `${count} ${unit}${count !== 1 ? 's' : ''} ago`
Ago(count, unit) ==
    NumToStr(count) \o <<" ">> \o unit \o (IF count # 1 THEN <<"s">> ELSE <<>>) \o S_Ago

\* mutant of Bands: the days band runs up to 3 days
BandsThreeDaysRelative(diffSeconds, diffMinutes, diffHours, diffDays, d, n, z) ==
    IF diffSeconds < 60
    THEN IF diffSeconds <= 5
         THEN [band |-> "now", text |-> S_JustNow]
         ELSE [band |-> "seconds",
               text |-> Ago(diffSeconds, <<"s", "e", "c", "o", "n", "d">>)]
    ELSE IF diffMinutes < 60
    THEN [band |-> "minutes", text |-> Ago(diffMinutes, <<"m", "i", "n", "u", "t", "e">>)]
    ELSE IF diffHours < 24
    THEN [band |-> "hours", text |-> Ago(diffHours, <<"h", "o", "u", "r">>)]
    ELSE IF diffDays <= 3
    THEN [band |-> "days", text |-> Ago(diffDays, <<"d", "a", "y">>)]
    ELSE [band |-> "absolute",
          text |-> ToLocaleString(d, z, Fields(d, z).year # Fields(n, z).year)]

\* mutant of Bands: the days band ends before 2 days
BandsTwoDaysAbsolute(diffSeconds, diffMinutes, diffHours, diffDays, d, n, z) ==
    IF diffSeconds < 60
    THEN IF diffSeconds <= 5
         THEN [band |-> "now", text |-> S_JustNow]
         ELSE [band |-> "seconds",
               text |-> Ago(diffSeconds, <<"s", "e", "c", "o", "n", "d">>)]
    ELSE IF diffMinutes < 60
    THEN [band |-> "minutes", text |-> Ago(diffMinutes, <<"m", "i", "n", "u", "t", "e">>)]
    ELSE IF diffHours < 24
    THEN [band |-> "hours", text |-> Ago(diffHours, <<"h", "o", "u", "r">>)]
    ELSE IF diffDays < 2
    THEN [band |-> "days", text |-> Ago(diffDays, <<"d", "a", "y">>)]
    ELSE [band |-> "absolute",
          text |-> ToLocaleString(d, z, Fields(d, z).year # Fields(n, z).year)]

\* mutant of Bands: the years compared are the UTC years (getUTCFullYear)
BandsYearFromUTC(diffSeconds, diffMinutes, diffHours, diffDays, d, n, z) ==
    IF diffSeconds < 60
    THEN IF diffSeconds <= 5
         THEN [band |-> "now", text |-> S_JustNow]
         ELSE [band |-> "seconds",
               text |-> Ago(diffSeconds, <<"s", "e", "c", "o", "n", "d">>)]
    ELSE IF diffMinutes < 60
    THEN [band |-> "minutes", text |-> Ago(diffMinutes, <<"m", "i", "n", "u", "t", "e">>)]
    ELSE IF diffHours < 24
    THEN [band |-> "hours", text |-> Ago(diffHours, <<"h", "o", "u", "r">>)]
    ELSE IF diffDays <= 2
    THEN [band |-> "days", text |-> Ago(diffDays, <<"d", "a", "y">>)]
    ELSE [band |-> "absolute",
          text |-> ToLocaleString(d, z, Fields(d, 0).year # Fields(n, 0).year)]

\* the bands of formatLastActivity
Bands(diffSeconds, diffMinutes, diffHours, diffDays, d, n, z) ==
    IF diffSeconds < 60
    THEN IF diffSeconds <= 5
         THEN [band |-> "now", text |-> S_JustNow]
         ELSE [band |-> "seconds",
               text |-> Ago(diffSeconds, <<"s", "e", "c", "o", "n", "d">>)]
    ELSE IF diffMinutes < 60
    THEN [band |-> "minutes", text |-> Ago(diffMinutes, <<"m", "i", "n", "u", "t", "e">>)]
    ELSE IF diffHours < 24
    THEN [band |-> "hours", text |-> Ago(diffHours, <<"h", "o", "u", "r">>)]
    ELSE IF diffDays <= 2
    THEN [band |-> "days", text |-> Ago(diffDays, <<"d", "a", "y">>)]
    ELSE [band |-> "absolute",
          text |-> ToLocaleString(d, z, Fields(d, z).year # Fields(n, z).year)]

\* diffSeconds, diffMinutes, diffHours, diffDays and the band they select
RelativeOrAbsolute(d, n, z) ==
    Bands(DiffSeconds(n, d),
          DiffSeconds(n, d) \div 60,
          (DiffSeconds(n, d) \div 60) \div 60,
          ((DiffSeconds(n, d) \div 60) \div 60) \div 24,
          d, n, z)

\* mutant of FinishLastActivity: the clock is read a second time for the
\* comparison of the years
FinishLastActivityRereads(lastActivityStr, lastActivityDate, n, z) ==
    IF lastActivityDate.nan
    THEN Outcome(lastActivityStr, "generic", "invalid", lastActivityDate, 0, 1)
    ELSE Outcome(Str(RelativeOrAbsolute(lastActivityDate, n, z).text), "generic",
                 RelativeOrAbsolute(lastActivityDate, n, z).band, lastActivityDate,
                 IF RelativeOrAbsolute(lastActivityDate, n, z).band = "absolute" THEN 2 ELSE 1,
                 IF RelativeOrAbsolute(lastActivityDate, n, z).band = "absolute" THEN 3 ELSE 2)

\* the validity check and the rendering of formatLastActivity
FinishLastActivity(lastActivityStr, lastActivityDate, n, z) ==
    IF lastActivityDate.nan
    THEN Outcome(lastActivityStr, "generic", "invalid", lastActivityDate, 0, 1)
    ELSE Outcome(Str(RelativeOrAbsolute(lastActivityDate, n, z).text), "generic",
                 RelativeOrAbsolute(lastActivityDate, n, z).band, lastActivityDate, 1, 2)

\* the try block of formatLastActivity
FormatLastActivityTry(lastActivityStr, n, z, e) ==
    IF lastActivityStr.tag # "string" THEN Throw
    ELSE FinishLastActivity(lastActivityStr, DateParse(lastActivityStr.s, z, e), n, z)

\* mutant of GuardLastActivity: 'Recent' is a sentinel too
GuardLastActivityWithRecent(lastActivityStr) ==
    \/ ~Truthy(lastActivityStr)
    \/ StrictEq(lastActivityStr, S_Unknown)
    \/ StrictEq(lastActivityStr, S_Never)
    \/ StrictEq(lastActivityStr, S_Recent)

\* if (!lastActivityStr || lastActivityStr === 'Unknown' || lastActivityStr === 'Never')
GuardLastActivity(lastActivityStr) ==
    \/ ~Truthy(lastActivityStr)
    \/ StrictEq(lastActivityStr, S_Unknown)
    \/ StrictEq(lastActivityStr, S_Never)

FormatLastActivity(lastActivityStr, n, z, e) ==
    IF GuardLastActivity(lastActivityStr)
    THEN Outcome(Str(S_Never), "guard", "guard", NaN, 0, 0)
    ELSE Catch(FormatLastActivityTry(lastActivityStr, n, z, e), lastActivityStr)

---------------------------------------------------------------------------
(* The arguments the formatters are called with.                           *)

\* strings with a T or a Z
IsoInputs ==
    { Str(<<"2", "0", "2", "5", "-", "1", "2", "-", "3", "0", "T", "2", "0", ":", "0", "0", ":", "0", "0", "Z">>),
      Str(<<"2", "0", "2", "5", "-", "1", "2", "-", "3", "0", "T", "2", "0", ":", "0", "0", ":", "0", "0", ".", "5", "0", "0", "Z">>),
      Str(<<"2", "0", "2", "5", "-", "1", "2", "-", "2", "2", "T", "0", "6", ":", "3", "6", ":", "1", "5", "Z">>),
      Str(<<"2", "0", "2", "5", "-", "1", "2", "-", "2", "2", "T", "0", "6", ":", "3", "6", ":", "1", "5">>),
      Str(<<"2", "0", "2", "5", "-", "1", "2", "-", "2", "2", "T", "1", "2", ":", "0", "6", ":", "1", "5", "+", "0", "5", ":", "3", "0">>),
      Str(<<"2", "0", "2", "5", "-", "1", "3", "-", "4", "5", "T", "2", "5", ":", "6", "1", ":", "6", "1", "Z">>),
      Str(<<"2", "0", "2", "5", "-", "0", "2", "-", "3", "0", "T", "1", "0", ":", "0", "0", ":", "0", "0", "Z">>),
      Str(<<"2", "0", "2", "5", "-", "1", "2", "-", "3", "1", "T", "1", "0", ":", "0", "0", ":", "0", "0", "Z">>),
      Str(<<"2", "0", "2", "5", "-", "0", "1", "-", "0", "1", "T", "0", "2", ":", "0", "0", ":", "0", "0", "Z">>),
      Str(<<"T", "u", "e", "s", "d", "a", "y">>) }

\* the backend's YYYY-MM-DD HH:MM:SS, in and out of calendar range
NaiveInputs ==
    { Str(<<"2", "0", "2", "5", "-", "1", "2", "-", "2", "2", " ", "0", "6", ":", "3", "6", ":", "1", "5">>),
      Str(<<"2", "0", "2", "5", "-", "1", "2", "-", "3", "0", " ", "2", "0", ":", "0", "0", ":", "0", "0">>),
      Str(<<"2", "0", "2", "5", "-", "1", "2", "-", "3", "1", " ", "2", "3", ":", "5", "9", ":", "5", "9">>),
      Str(<<"2", "0", "2", "4", "-", "0", "2", "-", "2", "9", " ", "0", "0", ":", "0", "0", ":", "0", "0">>),
      Str(<<"2", "0", "2", "5", "-", "1", "3", "-", "3", "2", " ", "2", "5", ":", "6", "1", ":", "6", "1">>),
      Str(<<"2", "0", "2", "5", "-", "0", "2", "-", "3", "0", " ", "1", "0", ":", "0", "0", ":", "0", "0">>) }

\* the same layout with a year below 1000
EarlyYearInputs ==
    { Str(<<"0", "0", "9", "9", "-", "0", "1", "-", "0", "1", " ", "0", "0", ":", "0", "0", ":", "0", "0">>),
      Str(<<"0", "9", "9", "9", "-", "0", "3", "-", "0", "4", " ", "0", "5", ":", "0", "6", ":", "0", "7">>) }

\* the backend's bare clock times
ClockInputs ==
    { Str(<<"0", "7", ":", "0", "1", " ", "A", "M">>),
      Str(<<"7", ":", "0", "1", " ", "P", "M">>),
      Str(<<"1", "2", ":", "0", "0", " ", "A", "M">>),
      Str(<<"1", "2", ":", "3", "0", " ", "P", "M">>),
      Str(<<"1", "1", ":", "5", "9", "p", "m">>),
      Str(<<"0", "7", ":", "0", "1", "\t", "A", "M">>),
      Str(<<"1", "3", ":", "9", "9", " ", "P", "M">>) }

\* strings of no recognized shape
OtherInputs ==
    { Str(<<"2", "0", "2", "5", "-", "1", "2", "-", "3", "0">>),
      Str(<<"2", "0", "2", "5", "-", "1", "2", "-", "2", "2", " ", "0", "6", ":", "3", "6">>),
      Str(<<"x", " ", "0", "7", ":", "0", "1", " ", "A", "M">>),
      Str(<<"0", "7", ":", "0", "1">>),
      Str(<<"g", "a", "r", "b", "a", "g", "e">>),
      Str(<<"n", "/", "a">>) }

\* the sentinel tokens, the absent values, and a value that is no string (a
\* number the backend put where a string was expected)
SentinelInputs ==
    { Null, Undefined, Str(<<>>), Str(S_Unknown), Str(S_Never), Str(S_Recent),
      Num(0), Num(17) }

Inputs ==
    SentinelInputs \cup IsoInputs \cup NaiveInputs \cup EarlyYearInputs
    \cup ClockInputs \cup OtherInputs

\* formatLastActivity is given timestamps of recent activity
LastActivityInputs == Inputs \ EarlyYearInputs

---------------------------------------------------------------------------
(* fetchAPI (config/api.ts): errors, responses, JSON.                      *)

\* String.prototype.includes(sub)
IncludesText(s, sub) ==
    \E i \in 1..(Len(s) - Len(sub) + 1) : SubSeq(s, i, i + Len(sub) - 1) = sub

StartsWith(s, prefix) == Len(s) >= Len(prefix) /\ SubSeq(s, 1, Len(prefix)) = prefix

EndsWith(s, suffix) ==
    Len(s) >= Len(suffix) /\ SubSeq(s, Len(s) - Len(suffix) + 1, Len(s)) = suffix

\* a || b
OrElse(a, b) == IF Truthy(a) THEN a ELSE b

maxRetries == 3

API_BASE_URL ==
    <<"h", "t", "t", "p", "s", ":", "/", "/", "b", "a", "c", "k", "e", "n",
      "d", "-", "3", "5", "m", "2", ".", "o", "n", "r", "e", "n", "d", "e",
      "r", ".", "c", "o", "m">>

S_HTTP == <<"H", "T", "T", "P", " ">>
S_HTTP4 == <<"H", "T", "T", "P", " ", "4">>
S_fetch == <<"f", "e", "t", "c", "h">>
S_UnknownError ==
    <<"U", "n", "k", "n", "o", "w", "n", " ", "e", "r", "r", "o", "r", " ",
      "o", "c", "c", "u", "r", "r", "e", "d">>
S_CannotConnect ==
    <<"C", "a", "n", "n", "o", "t", " ", "c", "o", "n", "n", "e", "c", "t",
      " ", "t", "o", " ", "b", "a", "c", "k", "e", "n", "d", " ", "a", "t",
      " ">>
S_MightBeSleeping ==
    <<".", " ", "T", "h", "e", " ", "b", "a", "c", "k", "e", "n", "d", " ",
      "m", "i", "g", "h", "t", " ", "b", "e", " ", "s", "l", "e", "e", "p",
      "i", "n", "g", " ", "(", "R", "e", "n", "d", "e", "r", " ", "f", "r",
      "e", "e", " ", "t", "i", "e", "r", ")", ".", " ">>
S_PleaseWait ==
    <<"P", "l", "e", "a", "s", "e", " ", "w", "a", "i", "t", " ", "3", "0",
      "-", "6", "0", " ", "s", "e", "c", "o", "n", "d", "s", " ", "a", "n",
      "d", " ", "r", "e", "f", "r", "e", "s", "h", ".">>

\* the message of the TypeError of reading a property of null
S_NullProperty ==
    <<"C", "a", "n", "n", "o", "t", " ", "r", "e", "a", "d", " ", "p", "r",
      "o", "p", "e", "r", "t", "i", "e", "s", " ", "o", "f", " ", "n", "u",
      "l", "l", " ", "(", "r", "e", "a", "d", "i", "n", "g", " ", "'", "e",
      "r", "r", "o", "r", "'", ")">>

\* the message of the SyntaxError of JSON.parse
S_UnexpectedToken ==
    <<"U", "n", "e", "x", "p", "e", "c", "t", "e", "d", " ", "t", "o", "k",
      "e", "n", " ", "<", " ", "i", "n", " ", "J", "S", "O", "N", " ", "a",
      "t", " ", "p", "o", "s", "i", "t", "i", "o", "n", " ", "0">>

\* an Error object: its constructor and its message; lastError = null
Err(type, message) == [type |-> type, message |-> message]
NoError == [type |-> "null", message |-> <<>>]

\* a JSON value: an object with its `error` and `message` properties, an array
\* with its length, or null
JObject(error, message) == [tag |-> "object", error |-> error, message |-> message, length |-> 0]
JArray(length) == [tag |-> "array", error |-> Undefined, message |-> Undefined, length |-> length]
JNull == [tag |-> "null", error |-> Undefined, message |-> Undefined, length |-> 0]
JUndefined == [tag |-> "undefined", error |-> Undefined, message |-> Undefined, length |-> 0]

J_ErrorOpen == <<"{", "\"", "e", "r", "r", "o", "r", "\"", ":", "\"">>
J_MessageOpen == <<"{", "\"", "m", "e", "s", "s", "a", "g", "e", "\"", ":", "\"">>
J_Close == <<"\"", "}">>

\* the text between a prefix and a suffix of s
Between(s, prefix, suffix) == SubSeq(s, Len(prefix) + 1, Len(s) - Len(suffix))

\* {"key":"text"} with no quote and no backslash inside text
IsOneStringObject(text, open) ==
    /\ StartsWith(text, open)
    /\ EndsWith(text, J_Close)
    /\ Len(text) >= Len(open) + Len(J_Close)
    /\ \A i \in (Len(open) + 1)..(Len(text) - Len(J_Close)) : text[i] \notin {"\"", "\\"}

\* JSON.parse(text), for the documents the responses carry: null, {}, [],
\* [1], {"error":"..."} and {"message":"..."}; anything else is a SyntaxError
JSONParse(text) ==
    CASE text = <<"n", "u", "l", "l">> -> [ok |-> TRUE, value |-> JNull]
      [] text = <<"{", "}">> -> [ok |-> TRUE, value |-> JObject(Undefined, Undefined)]
      [] text = <<"[", "]">> -> [ok |-> TRUE, value |-> JArray(0)]
      [] text = <<"[", "1", "]">> -> [ok |-> TRUE, value |-> JArray(1)]
      [] IsOneStringObject(text, J_ErrorOpen) ->
             [ok |-> TRUE,
              value |-> JObject(Str(Between(text, J_ErrorOpen, J_Close)), Undefined)]
      [] IsOneStringObject(text, J_MessageOpen) ->
             [ok |-> TRUE,
              value |-> JObject(Undefined, Str(Between(text, J_MessageOpen, J_Close)))]
      [] OTHER -> [ok |-> FALSE, value |-> JUndefined]

\* a Response: status, statusText and the text of the body
Response(status, statusText, body) ==
    [status |-> status, statusText |-> statusText, body |-> body]
NoResponse == Response(0, <<>>, <<>>)

\* response.ok
Ok(r) == r.status >= 200 /\ r.status <= 299

\* try { errorData = JSON.parse(errorText) }
\* catch { errorData = { error: errorText || response.statusText } }
ErrorData(r) ==
    IF JSONParse(r.body).ok THEN JSONParse(r.body).value
    ELSE JObject(OrElse(Str(r.body), Str(r.statusText)), Undefined)

\* `HTTP ${status}: ${text}`
HttpError(status, text) ==
    Err("Error", S_HTTP \o NumToStr(status) \o <<":", " ">> \o text.s)

\* what the block of `if (!response.ok)` throws: the HTTP error of a 4xx
\* (error, else message, else statusText) or of any other status (error, else
\* statusText); reading errorData.error of null is a TypeError
ThrownForStatus(r, errorData) ==
    IF errorData.tag = "null" THEN Err("TypeError", S_NullProperty)
    ELSE IF r.status >= 400 /\ r.status < 500
    THEN HttpError(r.status, OrElse(errorData.error, OrElse(errorData.message, Str(r.statusText))))
    ELSE HttpError(r.status, OrElse(errorData.error, Str(r.statusText)))

\* mutant of JsonOutcome: a body that does not parse is returned as undefined
JsonOutcomeSwallows(r) ==
    [ok |-> TRUE, data |-> JSONParse(r.body).value, error |-> NoError]

\* const data = await response.json()
JsonOutcome(r) ==
    IF JSONParse(r.body).ok
    THEN [ok |-> TRUE, data |-> JSONParse(r.body).value, error |-> NoError]
    ELSE [ok |-> FALSE, data |-> JUndefined, error |-> Err("SyntaxError", S_UnexpectedToken)]

\* error instanceof Error && error.message.includes('HTTP 4')
GivesUp(error) == error.type # "null" /\ IncludesText(error.message, S_HTTP4)

\* 2 ^ k
RECURSIVE Pow2(_)
Pow2(k) == IF k = 0 THEN 1 ELSE 2 * Pow2(k - 1)

\* mutant of Delay: the exponent is attempt, not attempt - 1
DelayDoubled(k) == IF 2000 * Pow2(k) < 10000 THEN 2000 * Pow2(k) ELSE 10000

\* Math.min(2000 * Math.pow(2, attempt - 1), 10000)
Delay(k) == IF 2000 * Pow2(k - 1) < 10000 THEN 2000 * Pow2(k - 1) ELSE 10000

\* mutant of LoopContinues: one attempt more
LoopContinuesOnceMore(k) == k <= maxRetries + 1

\* attempt <= maxRetries
LoopContinues(k) == k <= maxRetries

\* what is thrown after the loop
AfterLoop(e) ==
    IF e.type = "TypeError" /\ IncludesText(e.message, S_fetch)
    THEN Err("Error", S_CannotConnect \o API_BASE_URL \o S_MightBeSleeping \o S_PleaseWait)
    ELSE IF e.type # "null" THEN e
    ELSE Err("Error", S_UnknownError)

\* the entries of the log: a request, a response, a network error (with the
\* TypeError of fetch) or a wait, of attempt k
Event(ev, k, n, r, e) == [ev |-> ev, k |-> k, n |-> n, r |-> r, e |-> e]

---------------------------------------------------------------------------
(* Dashboard (components/Dashboard.tsx): the detail view and the list.     *)
(* The employee list is told apart by the call of loadEmployees whose      *)
(* response it was mapped from.                                            *)
(* The lists of screenshots and of activities are told apart by what they  *)
(* hold: "empty" is [], "loading" the 'Loading...' placeholder of the      *)
(* click, "tracking" and "dataLoading" the two substitutes                 *)
(* handleEmployeeClick makes up, "v1" a list mapped from a response.       *)

\* an employee object with its id, screenshots and activities; id 0 is null
Employee(id, screenshots, activities) ==
    [id |-> id, screenshots |-> screenshots, activities |-> activities]
NoEmployee == Employee(0, "none", "none")

\* what one fetchAPI call of the detail view comes to: it rejects (or, in
\* handleEmployeeClick, loses the race against the timeout), resolves with
\* data that lacks the field, or resolves with the field holding a list
DetailOutcomes == {"failed", "nofield", "empty", "v1"}

\* screenshotsData && screenshotsData.screenshots
HasField(o) == o \notin {"failed", "nofield"}

\* refreshDetails: let screenshots = selectedEmployee.screenshots || [];
\* if (screenshotsData && screenshotsData.screenshots) screenshots = ...map(...)
RefreshedList(o, kept) == IF HasField(o) THEN o ELSE kept

\* handleEmployeeClick: let screenshots = []; if (...) screenshots = ...map(...)
ClickedScreenshots(o) == IF HasField(o) THEN o ELSE "empty"

\* handleEmployeeClick: let activities = []; if (...) activities = ...map(...);
\* if (activities.length === 0) activities = [{... 'Currently active' ...}]
ClickedActivities(o) == IF HasField(o) /\ o # "empty" THEN o ELSE "tracking"

\* setSelectedEmployee({...employee, screenshots: [], activities: [{time: 'Loading...', ...}]})
Placeholder(id) == Employee(id, "empty", "loading")

\* the catch of the inner try of handleEmployeeClick
TimeoutFallback(id) == Employee(id, "empty", "dataLoading")

\* no detail effect is in force
NoEffect == [active |-> FALSE, sel |-> NoEmployee]

\* the last step was not an update by refreshDetails
NoStep ==
    [kind |-> "other", shots |-> "failed", detail |-> "failed", sawLoaded |-> FALSE,
     shown |-> NoEmployee]

\* MOCK_EMPLOYEES, the list before any response
MockEmployees == [from |-> 0]

\* the Dashboard as first rendered
DashIdle ==
    /\ view = "overview"
    /\ selectedEmployee = NoEmployee
    /\ effect = NoEffect
    /\ clicks = {}
    /\ clicksStarted = 0
    /\ runs = {}
    /\ runsStarted = 0
    /\ step = NoStep
    /\ employees = MockEmployees
    /\ polls = {}
    /\ pollsStarted = 0
    /\ succeeded = {}

---------------------------------------------------------------------------
(* The environment: clock, zone and engine.                                *)

\* the largest number of whole days the clock is past ClockBase
MaxDays == 5

\* 2025-12-30T20:00:00Z
ClockBase == MakeDate(DaysFromCivil(2025, 12, 30), 20 * 3600, 0)

\* seconds past ClockBase: around every band edge of formatLastActivity (5/6 s,
\* 59/60 s, 59/60 min, 23/24 h), at two minutes and two hours, and around
\* each whole day up to MaxDays
Elapsed ==
    {3, 5, 6, 45, 59, 60, 90, 120, 3599, 3600, 7200}
    \cup { 86400 * d - 1 : d \in 1..MaxDays }
    \cup { 86400 * d : d \in 1..MaxDays }

Clocks == { MakeDate(ClockBase.day, ClockBase.sec + el, ms) : el \in Elapsed, ms \in {0, 999} }

\* UTC, India (+05:30), US Eastern standard time (-05:00)
Zones == {0, 330, -300}

Engines == {"lenient", "strict"}

NoCall ==
    [fn |-> "none", arg |-> Undefined,
     out |-> Outcome(Undefined, "none", "none", NaN, 0, 0)]

\* no call of fetchAPI is under way
FetchIdle ==
    /\ pc = "idle"
    /\ attempt = 0
    /\ response = NoResponse
    /\ lastError = NoError
    /\ result = JUndefined
    /\ thrown = NoError
    /\ log = <<>>

Init ==
    /\ now \in Clocks
    /\ tz \in Zones
    /\ engine \in Engines
    /\ call = NoCall
    /\ FetchIdle
    /\ DashIdle

CallFormatLocalTime ==
    /\ call.fn = "none"
    /\ \E timestamp \in Inputs :
          call' = [fn |-> "formatLocalTime", arg |-> timestamp,
                   out |-> FormatLocalTime(timestamp, now, tz, engine)]
    /\ UNCHANGED <<now, tz, engine>>
    /\ UNCHANGED <<fetchVars, dashVars>>

CallFormatActivityTime ==
    /\ call.fn = "none"
    /\ \E timestamp \in Inputs :
          call' = [fn |-> "formatActivityTime", arg |-> timestamp,
                   out |-> FormatActivityTime(timestamp, now, tz, engine)]
    /\ UNCHANGED <<now, tz, engine>>
    /\ UNCHANGED <<fetchVars, dashVars>>

CallFormatLocalDateTime ==
    /\ call.fn = "none"
    /\ \E timestamp \in Inputs :
          call' = [fn |-> "formatLocalDateTime", arg |-> timestamp,
                   out |-> FormatLocalDateTime(timestamp, now, tz, engine)]
    /\ UNCHANGED <<now, tz, engine>>
    /\ UNCHANGED <<fetchVars, dashVars>>

CallFormatScreenshotTime ==
    /\ call.fn = "none"
    /\ \E timestamp \in Inputs :
          call' = [fn |-> "formatScreenshotTime", arg |-> timestamp,
                   out |-> FormatScreenshotTime(timestamp, now, tz, engine)]
    /\ UNCHANGED <<now, tz, engine>>
    /\ UNCHANGED <<fetchVars, dashVars>>

CallFormatLastActivity ==
    /\ call.fn = "none"
    /\ \E lastActivityStr \in LastActivityInputs :
          call' = [fn |-> "formatLastActivity", arg |-> lastActivityStr,
                   out |-> FormatLastActivity(lastActivityStr, now, tz, engine)]
    /\ UNCHANGED <<now, tz, engine>>
    /\ UNCHANGED <<fetchVars, dashVars>>

\* the caller takes the result; the next call starts from there (the
\* formatters are synchronous, calls never overlap)
Return ==
    /\ call.fn # "none"
    /\ call' = NoCall
    /\ UNCHANGED <<now, tz, engine>>
    /\ UNCHANGED <<fetchVars, dashVars>>

Next ==
    \/ CallFormatLocalTime
    \/ CallFormatActivityTime
    \/ CallFormatLocalDateTime
    \/ CallFormatScreenshotTime
    \/ CallFormatLastActivity
    \/ Return

Spec == Init /\ [][Next]_vars

---------------------------------------------------------------------------
(* One call of fetchAPI against a network that answers each request with a *)
(* response or with a network error.                                       *)

\* the messages of the TypeError of a failed fetch (Chrome, Safari)
NetworkMessages ==
    { <<"F", "a", "i", "l", "e", "d", " ", "t", "o", " ", "f", "e", "t", "c", "h">>,
      <<"L", "o", "a", "d", " ", "f", "a", "i", "l", "e", "d">> }

\* the bodies of the responses that are not ok: JSON objects with an error or
\* a message, an empty object, plain text, nothing, the JSON null, and an
\* error text that quotes a 4xx status of another server
ErrorBodies ==
    { <<"{", "\"", "e", "r", "r", "o", "r", "\"", ":", "\"", "n", "o", "t", " ", "f", "o", "u", "n", "d", "\"", "}">>,
      <<"{", "\"", "m", "e", "s", "s", "a", "g", "e", "\"", ":", "\"", "b", "a", "d", " ", "i", "n", "p", "u", "t", "\"", "}">>,
      <<"{", "}">>,
      <<"o", "o", "p", "s">>,
      <<>>,
      <<"n", "u", "l", "l">>,
      <<"{", "\"", "e", "r", "r", "o", "r", "\"", ":", "\"", "u", "p", "s", "t", "r", "e", "a", "m", " ", "H", "T", "T", "P", " ", "4", "0", "4", "\"", "}">> }

\* the bodies of the ok responses: two JSON arrays and an HTML page
OkBodies == { <<"[", "]">>, <<"[", "1", "]">>, <<"<", "h", "t", "m", "l", ">">> }

\* status and statusText of the responses that are not ok
ErrorStatuses ==
    { <<400, <<"B", "a", "d", " ", "R", "e", "q", "u", "e", "s", "t">>>>,
      <<404, <<"N", "o", "t", " ", "F", "o", "u", "n", "d">>>>,
      <<499, <<>>>>,
      <<500, <<"I", "n", "t", "e", "r", "n", "a", "l", " ", "S", "e", "r", "v", "e", "r", " ", "E", "r", "r", "o", "r">>>> }

Responses ==
    { Response(200, <<"O", "K">>, body) : body \in OkBodies }
    \cup { Response(st[1], st[2], body) : st \in ErrorStatuses, body \in ErrorBodies }

FetchInit ==
    /\ now = ClockBase
    /\ tz = 0
    /\ engine = "lenient"
    /\ call = NoCall
    /\ FetchIdle
    /\ DashIdle

\* the loop test for attempt k, then its request: fetch(url, ...); when the
\* loop is over, `throw` after the loop
NextIteration(k, e, lg) ==
    /\ attempt' = k
    /\ response' = NoResponse
    /\ IF LoopContinues(k)
       THEN /\ pc' = "fetch"
            /\ thrown' = thrown
            /\ log' = Append(lg, Event("request", k, 0, NoResponse, NoError))
       ELSE /\ pc' = "rejected"
            /\ thrown' = AfterLoop(e)
            /\ log' = lg

\* mutant of CatchBlock: lastError keeps the first error (lastError ||= error)
CatchBlockKeepsFirst(error, lg) ==
    /\ lastError' = IF lastError = NoError THEN error ELSE lastError
    /\ IF GivesUp(error)
       THEN /\ pc' = "rejected"
            /\ thrown' = error
            /\ log' = lg
            /\ UNCHANGED <<attempt, response>>
       ELSE IF attempt < maxRetries
       THEN /\ pc' = "backoff"
            /\ log' = Append(lg, Event("wait", attempt, Delay(attempt), NoResponse, NoError))
            /\ UNCHANGED <<attempt, response, thrown>>
       ELSE NextIteration(attempt + 1, IF lastError = NoError THEN error ELSE lastError, lg)

\* catch (error) { lastError = error; rethrow an 'HTTP 4' error; wait before
\* the next attempt when one is left }
CatchBlock(error, lg) ==
    /\ lastError' = error
    /\ IF GivesUp(error)
       THEN /\ pc' = "rejected"
            /\ thrown' = error
            /\ log' = lg
            /\ UNCHANGED <<attempt, response>>
       ELSE IF attempt < maxRetries
       THEN /\ pc' = "backoff"
            /\ log' = Append(lg, Event("wait", attempt, Delay(attempt), NoResponse, NoError))
            /\ UNCHANGED <<attempt, response, thrown>>
       ELSE NextIteration(attempt + 1, error, lg)

\* fetchAPI(endpoint, options) is called: the first attempt's request
CallFetchAPI ==
    /\ pc = "idle"
    /\ NextIteration(1, NoError, log)
    /\ UNCHANGED <<lastError, result>>
    /\ UNCHANGED <<fmtVars, dashVars>>

\* await fetch(...) rejects: a network error
FetchRejects ==
    /\ pc = "fetch"
    /\ \E message \in NetworkMessages :
          CatchBlock(Err("TypeError", message),
                     Append(log, Event("failed", attempt, 0, NoResponse,
                                       Err("TypeError", message))))
    /\ UNCHANGED result
    /\ UNCHANGED <<fmtVars, dashVars>>

\* await fetch(...) resolves with a Response
FetchResolves ==
    /\ pc = "fetch"
    /\ \E r \in Responses :
          /\ response' = r
          /\ log' = Append(log, Event("response", attempt, r.status, r, NoError))
          /\ pc' = IF Ok(r) THEN "json" ELSE "text"
    /\ UNCHANGED <<attempt, lastError, result, thrown>>
    /\ UNCHANGED <<fmtVars, dashVars>>

\* await response.text() of a response that is not ok, up to the throw
TextSettles ==
    /\ pc = "text"
    /\ CatchBlock(ThrownForStatus(response, ErrorData(response)), log)
    /\ UNCHANGED result
    /\ UNCHANGED <<fmtVars, dashVars>>

\* await response.json() of an ok response: return data, or the SyntaxError
JsonSettles ==
    /\ pc = "json"
    /\ IF JsonOutcome(response).ok
       THEN /\ pc' = "resolved"
            /\ result' = JsonOutcome(response).data
            /\ UNCHANGED <<attempt, response, lastError, thrown, log>>
       ELSE /\ CatchBlock(JsonOutcome(response).error, log)
            /\ UNCHANGED result
    /\ UNCHANGED <<fmtVars, dashVars>>

\* the timer of the backoff wait fires: the next iteration of the loop
TimerFires ==
    /\ pc = "backoff"
    /\ NextIteration(attempt + 1, lastError, log)
    /\ UNCHANGED <<lastError, result>>
    /\ UNCHANGED <<fmtVars, dashVars>>

\* the caller has the outcome; a later call starts afresh
FetchReturn ==
    /\ pc \in {"resolved", "rejected"}
    /\ pc' = "idle"
    /\ attempt' = 0
    /\ response' = NoResponse
    /\ lastError' = NoError
    /\ result' = JUndefined
    /\ thrown' = NoError
    /\ log' = <<>>
    /\ UNCHANGED <<fmtVars, dashVars>>

FetchNext ==
    \/ CallFetchAPI
    \/ FetchRejects
    \/ FetchResolves
    \/ TextSettles
    \/ JsonSettles
    \/ TimerFires
    \/ FetchReturn

FetchSpec == FetchInit /\ [][FetchNext]_vars

\* every request, every body read and every backoff timer settles
FetchLive ==
    /\ FetchInit
    /\ [][FetchNext]_vars
    /\ WF_vars(FetchRejects \/ FetchResolves)
    /\ WF_vars(TextSettles)
    /\ WF_vars(JsonSettles)
    /\ WF_vars(TimerFires)

---------------------------------------------------------------------------
(* The detail view of the Dashboard: handleEmployeeClick, the effect that  *)
(* starts refreshDetails at once and every 5 s, and the two buttons that   *)
(* leave the view.  An effect is run again only when view or               *)
(* selectedEmployee?.id changed; until then its refreshDetails sees the    *)
(* selectedEmployee of the render that started it.                         *)

\* the ids of the employees of the list
EmployeeIds == {1, 2}

\* how many runs of refreshDetails and how many calls of handleEmployeeClick
\* are started
MaxRuns == 2
MaxClicks == 2

\* both lists of the employee shown were mapped from responses
Loaded(e) == e.screenshots = "v1" /\ e.activities = "v1"

\* a run of refreshDetails: its number, the selectedEmployee of its closure,
\* and whether loaded lists of that employee were on display when it started
Run(n, sel, shown) ==
    [n |-> n, sel |-> sel, sawLoaded |-> Loaded(shown) /\ shown.id = sel.id]

\* a render with the new view and selectedEmployee, then the effect of lines
\* 108-151: when [view, selectedEmployee?.id] changed, the interval of the old
\* effect is cleared and, if view === 'detail' && selectedEmployee, the new
\* closure runs refreshDetails at once and sets its interval
Commit(newView, newSel, rs) ==
    /\ view' = newView
    /\ selectedEmployee' = newSel
    /\ IF newView = view /\ newSel.id = selectedEmployee.id
       THEN /\ effect' = effect
            /\ runs' = rs
            /\ runsStarted' = runsStarted
       ELSE IF newView = "detail" /\ newSel.id # 0
       THEN /\ effect' = [active |-> TRUE, sel |-> newSel]
            /\ IF runsStarted < MaxRuns
               THEN /\ runs' = rs \cup {Run(runsStarted + 1, newSel, newSel)}
                    /\ runsStarted' = runsStarted + 1
               ELSE /\ runs' = rs
                    /\ runsStarted' = runsStarted
       ELSE /\ effect' = NoEffect
            /\ runs' = rs
            /\ runsStarted' = runsStarted

\* handleEmployeeClick(employee) up to its first await: the placeholder, the
\* detail view, and the request for the screenshots
ClickEmployee ==
    /\ view = "overview"
    /\ clicksStarted < MaxClicks
    /\ clicksStarted' = clicksStarted + 1
    /\ \E id \in EmployeeIds :
          /\ \A c \in clicks : c.id # id
          /\ Commit("detail", Placeholder(id), runs)
          /\ clicks' = clicks \cup {[id |-> id, at |-> "screenshots", shots |-> "failed"]}
    /\ step' = NoStep
    /\ UNCHANGED <<pollVars, fmtVars, fetchVars>>

\* the first await of handleEmployeeClick settles: on a rejection or the
\* timeout the catch block, else the request for the details
ClickScreenshotsSettle ==
    /\ \E c \in clicks, o \in DetailOutcomes :
          /\ c.at = "screenshots"
          /\ IF o = "failed"
             THEN /\ Commit(view, TimeoutFallback(c.id), runs)
                  /\ clicks' = clicks \ {c}
             ELSE /\ clicks' = (clicks \ {c}) \cup {[id |-> c.id, at |-> "details", shots |-> o]}
                  /\ UNCHANGED <<view, selectedEmployee, effect, runs, runsStarted>>
    /\ step' = NoStep
    /\ UNCHANGED <<clicksStarted, pollVars, fmtVars, fetchVars>>

\* the second await of handleEmployeeClick settles: the catch block, or
\* setSelectedEmployee with the lists of the two responses
ClickDetailsSettle ==
    /\ \E c \in clicks, o \in DetailOutcomes :
          /\ c.at = "details"
          /\ Commit(view,
                    IF o = "failed" THEN TimeoutFallback(c.id)
                    ELSE Employee(c.id, ClickedScreenshots(c.shots), ClickedActivities(o)),
                    runs)
          /\ clicks' = clicks \ {c}
    /\ step' = NoStep
    /\ UNCHANGED <<clicksStarted, pollVars, fmtVars, fetchVars>>

\* the interval of the effect in force fires: refreshDetails of its closure
RefreshTick ==
    /\ effect.active
    /\ runsStarted < MaxRuns
    /\ runs' = runs \cup {Run(runsStarted + 1, effect.sel, selectedEmployee)}
    /\ runsStarted' = runsStarted + 1
    /\ step' = NoStep
    /\ UNCHANGED <<view, selectedEmployee, effect, clicks, clicksStarted, pollVars, fmtVars, fetchVars>>

\* Promise.all of a run of refreshDetails settles (a rejected fetchAPI counts
\* as null): setSelectedEmployee({...selectedEmployee, screenshots, activities})
\* with the selectedEmployee of the closure
RefreshSettles ==
    /\ \E r \in runs, so \in DetailOutcomes, do \in DetailOutcomes :
          /\ Commit(view,
                    Employee(r.sel.id, RefreshedList(so, r.sel.screenshots),
                             RefreshedList(do, r.sel.activities)),
                    runs \ {r})
          /\ step' = [kind |-> "refreshDetails", shots |-> so, detail |-> do,
                      sawLoaded |-> r.sawLoaded, shown |-> selectedEmployee]
    /\ UNCHANGED <<clicks, clicksStarted, pollVars, fmtVars, fetchVars>>

\* handleBackToOverview, and the Overview button
BackToOverview ==
    /\ view # "overview"
    /\ Commit("overview", NoEmployee, runs)
    /\ step' = NoStep
    /\ UNCHANGED <<clicks, clicksStarted, pollVars, fmtVars, fetchVars>>

\* the Members button
ShowMembers ==
    /\ view # "members"
    /\ Commit("members", selectedEmployee, runs)
    /\ step' = NoStep
    /\ UNCHANGED <<clicks, clicksStarted, pollVars, fmtVars, fetchVars>>

DashInit ==
    /\ now = ClockBase
    /\ tz = 0
    /\ engine = "lenient"
    /\ call = NoCall
    /\ FetchIdle
    /\ DashIdle

DetailNext ==
    \/ ClickEmployee
    \/ ClickScreenshotsSettle
    \/ ClickDetailsSettle
    \/ RefreshTick
    \/ RefreshSettles
    \/ BackToOverview
    \/ ShowMembers

DetailSpec == DashInit /\ [][DetailNext]_vars

---------------------------------------------------------------------------
(* The employee list of the Dashboard: loadEmployees is called when the    *)
(* component mounts and then every 5 s, whether or not earlier calls have  *)
(* returned; a call lasts as long as its fetchAPI, retries and waits       *)
(* included, so calls overlap and return in any order.                     *)

\* how many calls of loadEmployees are started
MaxPolls == 4

\* what a call of loadEmployees comes to: fetchAPI rejects, resolves with
\* data that fails `data.success && data.employees && data.employees.length > 0`,
\* or resolves with a list of employees
PollOutcomes == {"rejected", "noEmployees", "list"}

\* loadEmployees() of the mount effect, or of a tick of its interval
StartPoll ==
    /\ pollsStarted < MaxPolls
    /\ pollsStarted' = pollsStarted + 1
    /\ polls' = polls \cup {pollsStarted + 1}
    /\ UNCHANGED <<employees, succeeded, detailVars, fmtVars, fetchVars>>

\* the await of a call of loadEmployees settles: setEmployees with the
\* list of its response, or nothing
PollSettles ==
    /\ \E p \in polls, o \in PollOutcomes :
          /\ polls' = polls \ {p}
          /\ IF o = "list"
             THEN /\ employees' = [from |-> p]
                  /\ succeeded' = succeeded \cup {p}
             ELSE UNCHANGED <<employees, succeeded>>
    /\ UNCHANGED <<pollsStarted, detailVars, fmtVars, fetchVars>>

PollNext ==
    \/ StartPoll
    \/ PollSettles

PollSpec == DashInit /\ [][PollNext]_vars

---------------------------------------------------------------------------
(* Properties.                                                             *)

LocalTimeFns == {"formatLocalTime", "formatActivityTime"}
LocalDateTimeFns == {"formatLocalDateTime", "formatScreenshotTime"}

\* the call just made was given a string that reached the parse step
Parsed == call.fn # "none" /\ call.arg.tag = "string" /\ call.out.branch \notin {"guard", "none"}

\* the input matched none of the shapes the called formatter recognizes
Unrecognized == call.out.branch \in {"fallback", "generic"}

\* C1: every formatter returns a value and never raises: given a string, null
\* or undefined it returns a string; when the input is of no recognized shape
\* and generic parsing gives an invalid date, or an exception occurred inside,
\* the value returned is the input unchanged.
C1_NeverRaisesEchoesUnparseable ==
    call.fn # "none" =>
        /\ ~call.out.threw
        /\ call.arg.tag \in {"string", "null", "undefined"} => call.out.ret.tag = "string"
        /\ (Parsed /\ Unrecognized /\ DateParse(call.arg.s, tz, engine).nan)
               => call.out.ret = call.arg
        /\ call.out.caught => call.out.ret = call.arg

C1_Witness ==
    /\ call.fn = "formatLocalDateTime"
    /\ call.arg = Str(<<"g", "a", "r", "b", "a", "g", "e">>)
    /\ call.out.branch = "fallback"
    /\ call.out.date.nan
    /\ call.out.ret = call.arg

\* the six fields of a string of the naive layout, read at fixed positions
NaiveFields(s) ==
    [y |-> ParseInt(SubSeq(s, 1, 4)), m |-> ParseInt(SubSeq(s, 6, 7)),
     d |-> ParseInt(SubSeq(s, 9, 10)), h |-> ParseInt(SubSeq(s, 12, 13)),
     mi |-> ParseInt(SubSeq(s, 15, 16)), s |-> ParseInt(SubSeq(s, 18, 19))]

\* the six fields denote a real calendar date and time of day
RealDateTime(f) ==
    /\ f.m \in 1..12
    /\ f.d >= 1 /\ f.d <= DaysInMonth(f.y, f.m)
    /\ f.h <= 23 /\ f.mi <= 59 /\ f.s <= 59

\* YYYY-MM-DD HH:MM:SS, year padded to four digits, the rest to two, of the
\* calendar fields f moved by `off` minutes
ShiftedNaive(f, off) ==
    LET g == Fields(MakeDate(DaysFromCivil(f.y, f.m, f.d), f.h * 3600 + f.mi * 60 + f.s, 0), off)
    IN  PadStart(NumToStr(g.year), 4) \o <<"-">> \o PadStart(NumToStr(g.month), 2)
        \o <<"-">> \o PadStart(NumToStr(g.date), 2) \o <<" ">>
        \o PadStart(NumToStr(g.hours), 2) \o <<":">> \o PadStart(NumToStr(g.minutes), 2)
        \o <<":">> \o PadStart(NumToStr(g.seconds), 2)

IsNaiveArg == call.arg.tag = "string" /\ Len(call.arg.s) = 19 /\ NaiveAt(call.arg.s, 1)

\* C2: formatLocalDateTime reads every 'YYYY-MM-DD HH:MM:SS' with in-range
\* fields as a UTC instant and renders it, moved by the local offset, as
\* zero-padded 'YYYY-MM-DD HH:MM:SS'; at offset zero the output is the input,
\* at +05:30 '2025-12-22 06:36:15' becomes '2025-12-22 12:06:15'.
C2_NaiveReadAsUTC ==
    (/\ call.fn \in LocalDateTimeFns
     /\ IsNaiveArg
     /\ RealDateTime(NaiveFields(call.arg.s)))
    => /\ call.out.ret.s = ShiftedNaive(NaiveFields(call.arg.s), tz)
       /\ tz = 0 => call.out.ret = call.arg
       /\ (tz = 330 /\ call.arg.s = <<"2", "0", "2", "5", "-", "1", "2", "-", "2", "2", " ", "0", "6", ":", "3", "6", ":", "1", "5">>)
              => call.out.ret.s = <<"2", "0", "2", "5", "-", "1", "2", "-", "2", "2", " ", "1", "2", ":", "0", "6", ":", "1", "5">>

\* `count unit(s) ago`, singular for a count of 1
C3_Phrase(count, unit) ==
    NumToStr(count) \o <<" ">> \o unit \o (IF count = 1 THEN <<>> ELSE <<"s">>)
    \o <<" ", "a", "g", "o">>

C3_IsAbsolute(text) ==
    \E withYear \in BOOLEAN : text = ToLocaleString(call.out.date, tz, withYear)

C3_Expected(s, text) ==
    LET minutes == s \div 60
        hours   == minutes \div 60
        days    == hours \div 24
    IN  CASE s <= 5 -> text = <<"J", "u", "s", "t", " ", "n", "o", "w">>
          [] s >= 6 /\ s < 60 ->
                 text = NumToStr(s) \o <<" ", "s", "e", "c", "o", "n", "d", "s", " ", "a", "g", "o">>
          [] s >= 60 /\ minutes < 60 -> text = C3_Phrase(minutes, <<"m", "i", "n", "u", "t", "e">>)
          [] minutes >= 60 /\ hours < 24 -> text = C3_Phrase(hours, <<"h", "o", "u", "r">>)
          [] hours >= 24 /\ days <= 2 -> text = C3_Phrase(days, <<"d", "a", "y">>)
          [] OTHER -> C3_IsAbsolute(text)

\* the call was formatLastActivity of the instant ClockBase, `el` seconds ago
C3_At(el) ==
    /\ call.fn = "formatLastActivity"
    /\ call.arg.s = <<"2", "0", "2", "5", "-", "1", "2", "-", "3", "0", "T", "2", "0", ":", "0", "0", ":", "0", "0", "Z">>
    /\ now.day = ClockBase.day + (ClockBase.sec + el) \div 86400
    /\ now.sec = (ClockBase.sec + el) % 86400

\* C3: for a valid instant s >= 0 whole seconds before now, formatLastActivity
\* answers by exactly one band, tried in this order: s <= 5 'Just now';
\* s < 60 '{s} seconds ago'; minutes < 60 '{minutes} minute(s) ago'; hours < 24
\* '{hours} hour(s) ago'; days <= 2 '{days} day(s) ago'; else an absolute date.
\* 3 s is 'Just now', 45 s '45 seconds ago', 90 s '1 minute ago', 3 days an
\* absolute date.
C3_Bands ==
    /\ (/\ call.fn = "formatLastActivity"
        /\ Parsed
        /\ ~call.out.date.nan
        /\ DiffSeconds(now, call.out.date) >= 0)
       => C3_Expected(DiffSeconds(now, call.out.date), call.out.ret.s)
    /\ C3_At(3) => call.out.ret.s = <<"J", "u", "s", "t", " ", "n", "o", "w">>
    /\ C3_At(45) => call.out.ret.s = <<"4", "5", " ", "s", "e", "c", "o", "n", "d", "s", " ", "a", "g", "o">>
    /\ C3_At(90) => call.out.ret.s = <<"1", " ", "m", "i", "n", "u", "t", "e", " ", "a", "g", "o">>
    /\ C3_At(3 * 86400) => C3_IsAbsolute(call.out.ret.s)

C3_Witness ==
    /\ C3_At(90)
    /\ call.out.ret.s = <<"1", " ", "m", "i", "n", "u", "t", "e", " ", "a", "g", "o">>

\* a bare clock string read at its colon: hour, minute, and whether it says PM
ClockFields(s) ==
    LET c == CHOOSE i \in 1..Len(s) : s[i] = ":"
    IN  [h |-> ParseInt(SubSeq(s, 1, c - 1)), mi |-> ParseInt(SubSeq(s, c + 1, c + 2)),
         pm |-> s[Len(s) - 1] \in {"P", "p"}]

\* 12 AM is 0, 12 PM is 12, another PM hour h is h + 12, another AM hour is h
Hour24(f) ==
    CASE f.h = 12 /\ ~f.pm -> 0
      [] f.h = 12 /\ f.pm -> 12
      [] f.pm -> f.h + 12
      [] OTHER -> f.h

\* H:MM or HH:MM, an optional whitespace character, AM or PM in any case
IsClockShape(s) ==
    \E nd \in {1, 2}, sp \in {0, 1} :
        /\ Len(s) = nd + 5 + sp
        /\ \A i \in 1..nd : IsDigit(s[i])
        /\ s[nd + 1] = ":"
        /\ IsDigit(s[nd + 2]) /\ IsDigit(s[nd + 3])
        /\ sp = 1 => s[nd + 4] \in {" ", "\t", "\n"}
        /\ s[Len(s) - 1] \in {"A", "a", "P", "p"}
        /\ s[Len(s)] \in {"M", "m"}

IsClockArg == call.arg.tag = "string" /\ IsClockShape(call.arg.s)

\* C4: for a bare clock input with hour 1..12 formatLocalTime takes 12 AM as
\* hour 0, 12 PM as 12, any other PM hour h as h + 12 and any other AM hour as
\* h, of UTC; the minute is the one given and the second is 0.
C4_TwelveHourToUTC ==
    (/\ call.fn \in LocalTimeFns
     /\ IsClockArg
     /\ ClockFields(call.arg.s).h \in 1..12
     /\ ClockFields(call.arg.s).mi <= 59)
    => /\ ~call.out.date.nan
       /\ Fields(call.out.date, 0).hours = Hour24(ClockFields(call.arg.s))
       /\ Fields(call.out.date, 0).minutes = ClockFields(call.arg.s).mi
       /\ Fields(call.out.date, 0).seconds = 0
       /\ call.out.date.ms = 0

C4_Witness ==
    /\ call.fn = "formatLocalTime"
    /\ call.arg.s = <<"1", "2", ":", "3", "0", " ", "P", "M">>
    /\ Fields(call.out.date, 0).hours = 12
    /\ Fields(call.out.date, 0).minutes = 30

\* hh:mm AM/PM of minute `m` of the day
ClockText(m) ==
    PadStart(NumToStr(Hour12(m \div 60)), 2) \o <<":">> \o PadStart(NumToStr(m % 60), 2)
    \o <<" ">> \o DayPeriod(m \div 60)

\* C5: for a bare clock input formatLocalTime builds the instant from the UTC
\* calendar date of now and the given time of day in UTC, and returns that
\* instant's clock time in the local zone; at +05:30 '07:01 AM' gives
\* '12:31 PM'.
C5_ClockOnUTCDateOfNow ==
    (call.fn \in LocalTimeFns /\ IsClockArg)
    => /\ call.out.date =
              MakeDate(now.day, Hour24(ClockFields(call.arg.s)) * 3600
                                + ClockFields(call.arg.s).mi * 60, 0)
       /\ call.out.ret.s =
              ClockText((Hour24(ClockFields(call.arg.s)) * 60
                         + ClockFields(call.arg.s).mi + tz) % 1440)
       /\ (tz = 330 /\ call.arg.s = <<"0", "7", ":", "0", "1", " ", "A", "M">>)
              => call.out.ret.s = <<"1", "2", ":", "3", "1", " ", "P", "M">>

\* now is a moment whose local calendar date is not its UTC calendar date
C5_Witness ==
    /\ call.fn = "formatActivityTime"
    /\ call.arg.s = <<"0", "7", ":", "0", "1", " ", "A", "M">>
    /\ tz = 330
    /\ AddMinutes(now, tz).day # now.day
    /\ call.out.date.day = now.day
    /\ call.out.ret.s = <<"1", "2", ":", "3", "1", " ", "P", "M">>

\* YYYY-MM-DD HH:MM:SS, one space
IsNaiveShape(s) ==
    /\ Len(s) = 19
    /\ \A i \in 1..19 :
          CASE i \in {5, 8} -> s[i] = "-"
            [] i = 11 -> s[i] = " "
            [] i \in {14, 17} -> s[i] = ":"
            [] OTHER -> IsDigit(s[i])

HasTOrZ(s) == \E i \in 1..Len(s) : s[i] \in {"T", "Z"}

\* C6: formatLocalTime handles every non-sentinel string in exactly one of
\* four branches, the first of: (1) it contains T or Z, (2) it is of the
\* anchored naive layout, (3) it is of the anchored bare clock layout,
\* (4) anything else.
C6_FirstMatchingShape ==
    (/\ call.fn \in LocalTimeFns
     /\ call.arg.tag = "string"
     /\ call.arg.s \notin {<<>>, S_Unknown, S_Never, S_Recent})
    => call.out.branch =
           CASE HasTOrZ(call.arg.s) -> "iso"
             [] ~HasTOrZ(call.arg.s) /\ IsNaiveShape(call.arg.s) -> "naive"
             [] ~HasTOrZ(call.arg.s) /\ ~IsNaiveShape(call.arg.s)
                  /\ IsClockShape(call.arg.s) -> "clock"
             [] OTHER -> "fallback"

\* a string that ends like a clock time but does not start like one
C6_Witness ==
    /\ call.fn = "formatLocalTime"
    /\ call.arg.s = <<"x", " ", "0", "7", ":", "0", "1", " ", "A", "M">>
    /\ call.out.branch = "fallback"

\* C7: a string of the naive layout whose fields are no real calendar date
\* and time (month 13, day 32, February 30, hour 25, minute 61) is returned
\* unchanged by formatLocalTime and formatLocalDateTime.
C7_UnrealNaiveEchoed ==
    (/\ call.fn \in LocalTimeFns \cup LocalDateTimeFns
     /\ IsNaiveArg
     /\ ~RealDateTime(NaiveFields(call.arg.s)))
    => call.out.ret = call.arg

\* C8: formatLocalTime answers null, undefined, '' and 'Unknown' by 'Unknown'
\* and 'Never' and 'Recent' by themselves, before any parsing: no Date is
\* constructed and the clock is not read.
C8_GuardBeforeParsing ==
    call.fn \in LocalTimeFns
    => /\ call.arg \in {Null, Undefined, Str(<<>>), Str(S_Unknown)}
              => call.out.ret = Str(S_Unknown) /\ call.out.dates = 0 /\ call.out.clock = 0
       /\ call.arg \in {Str(S_Never), Str(S_Recent)}
              => call.out.ret = call.arg /\ call.out.dates = 0 /\ call.out.clock = 0

C8_Witness ==
    /\ call.fn = "formatLocalTime"
    /\ call.arg = Str(S_Recent)
    /\ call.out.ret = Str(S_Recent)
    /\ call.out.dates = 0

\* C9: formatLastActivity answers an empty, null or undefined input, 'Unknown'
\* and 'Never' by 'Never'; 'Recent' is parsed, found invalid and returned
\* unchanged.
C9_LastActivityGuard ==
    call.fn = "formatLastActivity"
    => /\ call.arg \in {Null, Undefined, Str(<<>>), Str(S_Unknown), Str(S_Never)}
              => call.out.ret = Str(S_Never) /\ call.out.dates = 0
       /\ call.arg = Str(S_Recent)
              => /\ call.out.dates >= 1
                 /\ call.out.date.nan
                 /\ call.out.ret = Str(S_Recent)

C9_Witness ==
    /\ call.fn = "formatLastActivity"
    /\ call.arg = Str(S_Recent)
    /\ call.out.date.nan
    /\ call.out.ret = Str(S_Recent)

\* C10: formatLocalDateTime answers null, undefined and '' by 'Unknown' and
\* 'Unknown' and 'Never' by themselves; 'Recent' is no sentinel: it takes the
\* fallback branch, fails the validity check and is returned unchanged; a bare
\* clock string such as '07:01 AM' takes the fallback branch too.
C10_LocalDateTimeGuard ==
    call.fn \in LocalDateTimeFns
    => /\ call.arg \in {Null, Undefined, Str(<<>>)} => call.out.ret = Str(S_Unknown)
       /\ call.arg \in {Str(S_Unknown), Str(S_Never)}
              => call.out.ret = call.arg /\ call.out.dates = 0
       /\ call.arg = Str(S_Recent)
              => /\ call.out.branch = "fallback"
                 /\ call.out.date.nan
                 /\ call.out.ret = Str(S_Recent)
       /\ IsClockArg => call.out.branch = "fallback"

C10_Witness ==
    /\ call.fn = "formatLocalDateTime"
    /\ call.arg = Str(S_Recent)
    /\ call.out.branch = "fallback"
    /\ call.out.ret = Str(S_Recent)

---------------------------------------------------------------------------
(* formatLastActivity: plurals, the two-day edge, the year.                *)

\* formatLastActivity rendered a valid instant `s` >= 0 whole seconds old
C11_Rendered ==
    /\ call.fn = "formatLastActivity"
    /\ Parsed
    /\ ~call.out.date.nan
    /\ DiffSeconds(now, call.out.date) >= 0

EndsWithAgo(text) ==
    Len(text) > 4 /\ SubSeq(text, Len(text) - 3, Len(text)) = <<" ", "a", "g", "o">>

\* the count a relative phrase displays: the digits before its first space
DisplayedCount(text) ==
    ParseInt(SubSeq(text, 1, (CHOOSE i \in 1..Len(text) : text[i] = " " /\ AllDigits(text, 1, i - 1)) - 1))

C11_Units ==
    { <<"s", "e", "c", "o", "n", "d">>, <<"m", "i", "n", "u", "t", "e">>,
      <<"h", "o", "u", "r">>, <<"d", "a", "y">> }

\* `n unit ago` with the bare unit word, or `n units ago`
C11_Singular(text, n) == \E unit \in C11_Units : text = NumToStr(n) \o <<" ">> \o unit \o S_Ago
C11_Plural(text, n) == \E unit \in C11_Units : text = NumToStr(n) \o <<" ">> \o unit \o <<"s">> \o S_Ago

\* C11: in every relative band of formatLastActivity (seconds, minutes, hours,
\* days) the unit word is singular exactly when the displayed count is 1 and
\* plural otherwise: '1 minute ago', '2 minutes ago', '1 hour ago',
\* '1 day ago', '2 days ago'.
C11_SingularExactlyForOne ==
    /\ (C11_Rendered /\ EndsWithAgo(call.out.ret.s))
       => IF DisplayedCount(call.out.ret.s) = 1
          THEN C11_Singular(call.out.ret.s, 1)
          ELSE C11_Plural(call.out.ret.s, DisplayedCount(call.out.ret.s))
    /\ (C11_Rendered /\ call.out.exit \in {"seconds", "minutes", "hours", "days"})
       => EndsWithAgo(call.out.ret.s)
    /\ C3_At(120) => call.out.ret.s = <<"2", " ", "m", "i", "n", "u", "t", "e", "s", " ", "a", "g", "o">>
    /\ C3_At(3600) => call.out.ret.s = <<"1", " ", "h", "o", "u", "r", " ", "a", "g", "o">>
    /\ C3_At(7200) => call.out.ret.s = <<"2", " ", "h", "o", "u", "r", "s", " ", "a", "g", "o">>
    /\ C3_At(86400) => call.out.ret.s = <<"1", " ", "d", "a", "y", " ", "a", "g", "o">>
    /\ C3_At(2 * 86400) => call.out.ret.s = <<"2", " ", "d", "a", "y", "s", " ", "a", "g", "o">>

C11_Witness ==
    /\ C3_At(86400)
    /\ DisplayedCount(call.out.ret.s) = 1
    /\ call.out.ret.s = <<"1", " ", "d", "a", "y", " ", "a", "g", "o">>

\* C12: every event more than 2 days (48 hours) before now is rendered as an
\* absolute date, never as a '... ago' phrase.
C12_OlderThanTwoDaysAbsolute ==
    (C11_Rendered /\ DiffSeconds(now, call.out.date) > 2 * 86400)
    => /\ ~EndsWithAgo(call.out.ret.s)
       /\ C3_IsAbsolute(call.out.ret.s)

\* C12 as the code has it: the age is counted in whole days, so an event is
\* rendered as an absolute date when it is 3 whole days (72 hours) old or
\* older, and an event 48 hours to just under 72 hours old is '2 days ago'.
C12_ThreeWholeDaysAbsolute ==
    /\ (C11_Rendered /\ DiffSeconds(now, call.out.date) >= 3 * 86400)
       => /\ ~EndsWithAgo(call.out.ret.s)
          /\ C3_IsAbsolute(call.out.ret.s)
    /\ (/\ C11_Rendered
        /\ DiffSeconds(now, call.out.date) >= 2 * 86400
        /\ DiffSeconds(now, call.out.date) < 3 * 86400)
       => call.out.ret.s = <<"2", " ", "d", "a", "y", "s", " ", "a", "g", "o">>
    /\ C3_At(3 * 86400 - 1) => call.out.ret.s = <<"2", " ", "d", "a", "y", "s", " ", "a", "g", "o">>

C12_Witness ==
    /\ C3_At(3 * 86400)
    /\ DiffSeconds(now, call.out.date) = 3 * 86400
    /\ C3_IsAbsolute(call.out.ret.s)
    /\ ~EndsWithAgo(call.out.ret.s)

\* text has `sub` as a substring
C14_Shows(text, sub) ==
    \E i \in 1..(Len(text) - Len(sub) + 1) : SubSeq(text, i, i + Len(sub) - 1) = sub

\* formatLastActivity of `arg`, seen `days` whole days after ClockBase at
\* offset zero
C14_Seen(arg, days) ==
    /\ call.fn = "formatLastActivity"
    /\ call.arg.s = arg
    /\ tz = 0
    /\ now.day = ClockBase.day + days
    /\ now.sec = ClockBase.sec

\* C14: in the absolute-date band of formatLastActivity the year is in the
\* output if and only if the event's year in the local zone differs from the
\* current year in the local zone; an event of 31 December seen on 4 January
\* shows its year, an event of the same calendar year never does.
C14_YearIffDiffers ==
    /\ (C11_Rendered /\ C3_IsAbsolute(call.out.ret.s))
       => /\ C14_Shows(call.out.ret.s, NumToStr(Fields(call.out.date, tz).year))
             <=> Fields(call.out.date, tz).year # Fields(now, tz).year
          /\ call.out.ret.s = ToLocaleString(call.out.date, tz,
                                  Fields(call.out.date, tz).year # Fields(now, tz).year)
    /\ C14_Seen(<<"2", "0", "2", "5", "-", "1", "2", "-", "3", "1", "T", "1", "0", ":", "0", "0", ":", "0", "0", "Z">>, 5)
       => call.out.ret.s = <<"D", "e", "c", " ", "3", "1", ",", " ", "2", "0", "2", "5", ",", " ", "1", "0", ":", "0", "0", " ", "A", "M">>
    /\ C14_Seen(<<"2", "0", "2", "5", "-", "1", "2", "-", "2", "2", "T", "0", "6", ":", "3", "6", ":", "1", "5", "Z">>, 1)
       => call.out.ret.s = <<"D", "e", "c", " ", "2", "2", ",", " ", "6", ":", "3", "6", " ", "A", "M">>

C14_Witness ==
    /\ C14_Seen(<<"2", "0", "2", "5", "-", "1", "2", "-", "3", "1", "T", "1", "0", ":", "0", "0", ":", "0", "0", "Z">>, 5)
    /\ Fields(call.out.date, tz).year = 2025
    /\ Fields(now, tz).year = 2026
    /\ C14_Shows(call.out.ret.s, <<"2", "0", "2", "5">>)

---------------------------------------------------------------------------
(* formatLocalDateTime: the layout of the output.                          *)

\* C13: for every valid parsed instant the output of formatLocalDateTime is
\* exactly 'YYYY-MM-DD HH:MM:SS', 19 characters: the year zero-padded to four
\* digits, month, day, hour, minute and second to two, read in the local zone.
C13_NineteenCharacters ==
    (/\ call.fn \in LocalDateTimeFns
     /\ Parsed
     /\ ~call.out.date.nan
     /\ call.out.exit = "formatted")
    => /\ Len(call.out.ret.s) = 19
       /\ IsNaiveShape(call.out.ret.s)
       /\ NaiveFields(call.out.ret.s).y = Fields(call.out.date, tz).year
       /\ NaiveFields(call.out.ret.s).m = Fields(call.out.date, tz).month
       /\ NaiveFields(call.out.ret.s).d = Fields(call.out.date, tz).date
       /\ NaiveFields(call.out.ret.s).h = Fields(call.out.date, tz).hours
       /\ NaiveFields(call.out.ret.s).mi = Fields(call.out.date, tz).minutes
       /\ NaiveFields(call.out.ret.s).s = Fields(call.out.date, tz).seconds

---------------------------------------------------------------------------
(* The two parsing paths side by side, and the reads of the clock.         *)

\* the instant timezoneUtils derives from the naive string s: its six fields
\* through Date.UTC
C15_ForcedUTC(s) ==
    DateUTC(NaiveFields(s).y, NaiveFields(s).m - 1, NaiveFields(s).d,
            NaiveFields(s).h, NaiveFields(s).mi, NaiveFields(s).s)

\* C15: for the same naive 'YYYY-MM-DD HH:MM:SS' input, the instant
\* formatLastActivity derives (generic parsing, read as local time) is the
\* instant formatLocalTime/formatLocalDateTime derive (fields forced to UTC)
\* moved by exactly the local offset, so the two agree only at offset zero; a
\* string with an explicit offset gives the same instant on both paths.
\* Stated for the runtime whose parser reads the naive layout.
C15_PathsDifferByOffset ==
    /\ (/\ call.fn = "formatLastActivity"
        /\ IsNaiveArg
        /\ engine = "lenient")
       => /\ ~call.out.date.nan
          /\ call.out.date = AddMinutes(C15_ForcedUTC(call.arg.s), -tz)
          /\ call.out.date = C15_ForcedUTC(call.arg.s) <=> tz = 0
    /\ (/\ call.fn = "formatLastActivity"
        /\ Parsed
        /\ HasTOrZ(call.arg.s))
       => call.out.date = ParseLocalDateTime(call.arg.s, tz, engine).date

\* C16 as written: every call of a formatter reads the wall clock exactly once,
\* on every path through the function.
C16_ClockReadExactlyOnce ==
    call.fn # "none" => call.out.clock = 1

\* C16 as the code has it: a call of a formatter reads the wall clock at most
\* once: exactly once when formatLocalTime takes the bare-clock branch and when
\* formatLastActivity has parsed a valid date, and not at all on every other
\* path (the guards, the other branches, an invalid or throwing parse, and all
\* of formatLocalDateTime).
C16_ClockReadAtMostOnce ==
    call.fn # "none"
    => /\ call.out.clock \in {0, 1}
       /\ call.out.clock = 1
          <=> \/ call.fn \in LocalTimeFns /\ call.out.branch = "clock"
              \/ call.fn = "formatLastActivity" /\ Parsed /\ ~call.out.date.nan
       /\ (call.fn \in LocalTimeFns /\ IsClockArg) => call.out.clock = 1
       /\ call.fn \in LocalDateTimeFns => call.out.clock = 0
       /\ ~Parsed => call.out.clock = 0

C16_Witness ==
    /\ call.fn = "formatLastActivity"
    /\ call.out.exit = "absolute"
    /\ call.out.clock = 1

---------------------------------------------------------------------------
(* fetchAPI: retries, giving up, resolving.                                *)

\* the positions of the log
Logged == 1..Len(log)

\* the number of requests issued so far by the call
Requests == Cardinality({ i \in Logged : log[i].ev = "request" })

\* the number of backoff waits started so far by the call
Waits == Cardinality({ i \in Logged : log[i].ev = "wait" })

Settled == pc \in {"resolved", "rejected"}

\* the log entry at i is a response with a status of 400..499
C17_ClientError(i) == log[i].ev = "response" /\ log[i].n >= 400 /\ log[i].n <= 499

\* C17: fetchAPI does not retry on 4xx: once an attempt has received a response
\* with status 400..499 nothing follows it, no backoff wait and no request,
\* whichever attempt it was, and the call rejects with an Error whose message
\* starts with 'HTTP <status>: '.
C17_ClientErrorRejectsAtOnce ==
    \A i \in Logged :
        C17_ClientError(i)
        => /\ i = Len(log)
           /\ pc \in {"text", "rejected"}
           /\ pc = "rejected"
              => StartsWith(thrown.message, S_HTTP \o NumToStr(log[i].n) \o <<":", " ">>)

\* attempt k of the log has failed by position i: a network error, a response
\* that is not ok, or an ok response followed by something
C18_FailedBefore(k, i) ==
    \E j \in 1..(i - 1) :
        /\ log[j].k = k
        /\ \/ log[j].ev = "failed"
           \/ log[j].ev = "response" /\ ~Ok(log[j].r)
           \/ log[j].ev = "response" /\ j < i - 1

C18_OneAfterAnother ==
    /\ pc # "idle" => Requests >= 1
    /\ Requests <= 3
    /\ \A i \in Logged :
          log[i].ev = "request"
          => /\ log[i].k = Cardinality({ j \in 1..i : log[j].ev = "request" })
             /\ log[i].k > 1 => C18_FailedBefore(log[i].k - 1, i)
             /\ i < Len(log) => log[i + 1].ev \in {"failed", "response"} /\ log[i + 1].k = log[i].k
    /\ pc = "fetch" => log[Len(log)].ev = "request"
    /\ Settled => attempt <= 4 /\ Requests \in 1..3

\* C18: one call of fetchAPI issues at least one and at most 3 requests, one
\* after another (attempt k+1 starts only after attempt k has failed), and,
\* provided every request and every backoff timer settles, the call settles
\* after at most 3 attempts.
C18_AtMostThreeThenSettles ==
    /\ []C18_OneAfterAnother
    /\ (pc # "idle") ~> Settled

C18_Witness ==
    /\ pc = "rejected"
    /\ Requests = 3
    /\ Waits = 2

\* the last attempt of the log ended with a response of status 400..499
C19_LastWasClientError ==
    /\ Len(log) > 0
    /\ C17_ClientError(Len(log))

\* C19: fetchAPI gives up early only for 4xx responses: when the call has
\* rejected after fewer than 3 requests, the attempt it gave up on got a
\* response with status 400..499; a 5xx response with any error body, a network
\* error with any message and an ok response that is not valid JSON are all
\* followed by another attempt while fewer than 3 have been made.
C19_GivesUpEarlyOnlyOnClientError ==
    (pc = "rejected" /\ Requests < 3) => C19_LastWasClientError

\* the log entry at i is an ok response
C20_OkResponse(i) == log[i].ev = "response" /\ Ok(log[i].r)

\* the log entry at i is an ok response whose body is valid JSON
C20_ParsedOkResponse(i) == C20_OkResponse(i) /\ JSONParse(log[i].r.body).ok

\* C20 as written: fetchAPI resolves with the parsed body of the first attempt
\* whose response is ok; after that attempt there is no further request and no
\* backoff wait, and no error of an earlier attempt reaches the caller.
C20_FirstOkResolves ==
    /\ \A i \in Logged :
          C20_OkResponse(i) => i = Len(log) /\ pc \in {"json", "resolved"}
    /\ pc = "resolved"
       => /\ result = JSONParse(log[Len(log)].r.body).value
          /\ thrown = NoError

\* C20 as the code has it: fetchAPI resolves with the parsed body of the first
\* attempt whose response is ok and whose body is valid JSON; after that
\* attempt there is no further request and no backoff wait, and no error of an
\* earlier attempt reaches the caller.  (An ok response whose body is not valid
\* JSON is a failed attempt like any other.)
C20_FirstParsedOkResolves ==
    /\ \A i \in Logged :
          C20_ParsedOkResponse(i) => i = Len(log) /\ pc \in {"json", "resolved"}
    /\ pc = "resolved"
       => /\ Len(log) > 0
          /\ C20_ParsedOkResponse(Len(log))
          /\ result = JSONParse(log[Len(log)].r.body).value
          /\ thrown = NoError
    /\ pc = "rejected" => result = JUndefined /\ thrown # NoError

C20_Witness ==
    /\ pc = "resolved"
    /\ Requests = 2
    /\ lastError # NoError
    /\ result = JArray(1)
    /\ thrown = NoError

\* the largest attempt number the delay formula is evaluated for
MaxAttemptNo == 6

\* min(2000 * 2^(k-1), 10000), written out
C21_Expected(k) ==
    CASE k = 1 -> 2000
      [] k = 2 -> 4000
      [] k = 3 -> 8000
      [] OTHER -> 10000

\* C21: between a failed retryable attempt k and attempt k+1 fetchAPI waits
\* min(2000 * 2^(k-1), 10000) ms: 2000 ms after the first attempt, 4000 ms
\* after the second; it never waits after the third attempt, and no wait
\* exceeds 10000 ms.
C21_ExponentialBackoff ==
    /\ \A i \in Logged :
          log[i].ev = "wait"
          => /\ log[i].k \in {1, 2}
             /\ log[i].n = C21_Expected(log[i].k)
             /\ log[i].n <= 10000
             /\ i > 1
             /\ log[i - 1].ev \in {"failed", "response"}
             /\ log[i - 1].k = log[i].k
             /\ i < Len(log) => log[i + 1].ev = "request" /\ log[i + 1].k = log[i].k + 1
    /\ \A i \in Logged :
          (log[i].ev = "request" /\ log[i].k > 1)
          => log[i - 1].ev = "wait" /\ log[i - 1].k = log[i].k - 1
    /\ pc = "backoff" => attempt < 3 /\ log[Len(log)].ev = "wait"
    /\ \A k \in 1..MaxAttemptNo : Delay(k) = C21_Expected(k) /\ Delay(k) <= 10000

C21_Witness ==
    /\ pc = "fetch"
    /\ attempt = 3
    /\ Waits = 2
    /\ \E i \in Logged : log[i].ev = "wait" /\ log[i].k = 2 /\ log[i].n = 4000

\* the error attempt k of the log ended with: the TypeError of fetch, what the
\* block of a response that is not ok throws, or the SyntaxError of
\* response.json()
C22_ErrorAt(i) ==
    IF log[i].ev = "failed" THEN log[i].e
    ELSE IF Ok(log[i].r) THEN JsonOutcome(log[i].r).error
    ELSE ThrownForStatus(log[i].r, ErrorData(log[i].r))

\* the position in the log where attempt k got its response or network error
C22_EndOf(k) == CHOOSE i \in Logged : log[i].k = k /\ log[i].ev \in {"failed", "response"}

\* three attempts were made and the third has failed too
C22_AllThreeFailed ==
    /\ Requests = 3
    /\ \E i \in Logged : log[i].k = 3 /\ log[i].ev \in {"failed", "response"}
    /\ pc \notin {"fetch", "text", "json"}
    /\ C22_ErrorAt(C22_EndOf(3)) # NoError

\* C22: when all 3 attempts of fetchAPI fail, the call rejects with the error
\* of the third attempt, except that when that error is a TypeError whose
\* message mentions 'fetch' it rejects with an Error starting 'Cannot connect
\* to backend at'; it never rejects with the error of an earlier attempt and
\* never resolves.
C22_RejectsWithLastError ==
    C22_AllThreeFailed
    => /\ pc = "rejected"
       /\ result = JUndefined
       /\ IF /\ C22_ErrorAt(C22_EndOf(3)).type = "TypeError"
             /\ IncludesText(C22_ErrorAt(C22_EndOf(3)).message, <<"f", "e", "t", "c", "h">>)
          THEN /\ thrown.type = "Error"
               /\ StartsWith(thrown.message,
                             <<"C", "a", "n", "n", "o", "t", " ", "c", "o", "n", "n", "e", "c", "t",
                               " ", "t", "o", " ", "b", "a", "c", "k", "e", "n", "d", " ", "a", "t">>)
          ELSE thrown = C22_ErrorAt(C22_EndOf(3))
       /\ \A k \in {1, 2} :
             thrown = C22_ErrorAt(C22_EndOf(k)) => thrown = C22_ErrorAt(C22_EndOf(3))

\* three failures, the last an HTTP 500 after two network errors: the HTTP
\* error is the one thrown
C22_Witness ==
    /\ C22_AllThreeFailed
    /\ log[C22_EndOf(1)].ev = "failed"
    /\ log[C22_EndOf(3)].ev = "response"
    /\ log[C22_EndOf(3)].n = 500
    /\ thrown = C22_ErrorAt(C22_EndOf(3))
    /\ thrown # C22_ErrorAt(C22_EndOf(1))

\* the last step was a run of refreshDetails started when the loaded lists of
\* the employee were on display, both of whose requests failed or came back
\* without the field, and the loaded lists were still on display before it
C23_FailedRefreshOverLoaded ==
    /\ step.kind = "refreshDetails"
    /\ ~HasField(step.shots)
    /\ ~HasField(step.detail)
    /\ step.sawLoaded
    /\ view = "detail"
    /\ Loaded(step.shown)
    /\ step.shown.id = selectedEmployee.id

\* C23: once the detail view shows activities and screenshots loaded for the
\* selected employee, a later periodic run of refreshDetails whose requests
\* fail (or return no screenshots / activities field) leaves the displayed
\* screenshots and activities unchanged: it never puts back the 'Loading...'
\* placeholder or the empty screenshot list set when the employee was clicked.
C23_FailedRefreshKeepsLoaded ==
    C23_FailedRefreshOverLoaded =>
        /\ selectedEmployee.screenshots = step.shown.screenshots
        /\ selectedEmployee.activities = step.shown.activities
        /\ selectedEmployee.activities # "loading"

\* C24: the employee list shown always comes from the most recently started
\* call of loadEmployees among those that completed successfully: when polls
\* overlap and their responses arrive out of order, an older response never
\* overwrites the data of a newer one.
C24_NewestSuccessShown ==
    succeeded # {} =>
        /\ employees.from \in succeeded
        /\ \A p \in succeeded : p <= employees.from

=============================================================================
